---------------------------- MODULE Spec2Model ----------------------------
(***************************************************************************)
(* Model of RecoMtt (src/Analysis/spectrum.py): the cache of the cross     *)
(* section before smearing (xsec_nosmear_grid, xsec_nosmear_interp), the   *)
(* setters that invalidate it, the adaptive refinement of build_xsec_grid  *)
(* and the choice of the convolution path in xsec.                         *)
(*                                                                         *)
(* Numbers.  A value of mtt on the grid is kept as its offset x from       *)
(* mtt_range[0] in units of (mtt_range[1] - mtt_range[0]) / XSpan, so that *)
(* x = 0 is exactly 340 GeV and x = XSpan exactly 2000 GeV.  One unit is   *)
(* the spacing of representable numbers: a mean of two values that is not  *)
(* representable is rounded to even, as IEEE-754 does (Mid).  Cross        *)
(* sections are integers in arbitrary units, plus the value NaN, which     *)
(* compares False with everything, as the floats of the code do.           *)
(***************************************************************************)
EXTENDS Integers, Sequences, FiniteSets, TLC

(* ------------------------------ bounds -------------------------------- *)

\* Bits of precision below the coarsest seed spacing.
Precision == 2

\* Cap on the length of the working lists of build_xsec_grid in SpecBuild.
MaxLen == 640

\* Loop iterations of build_xsec_grid that one call of xsec may take in Spec
\* is 2^FuelBits.
FuelBits == 10

(* ------------------------- program constants -------------------------- *)

MttLo == 340
MttHi == 2000
MinPoints == 100
DefaultRelTolDen == 200
DefaultNumSigma == 3
DensityThreshold == 20
NumResample == 101

RECURSIVE Pow2(_)
Pow2(k) == IF k = 0 THEN 1 ELSE 2 * Pow2(k - 1)

\* (n - 1) divides SeedLcm for every number n of seed points of the models.
SeedLcm == 99 * 5
XSpan == SeedLcm * Pow2(Precision)

(* --------------------------- float helpers ---------------------------- *)

NaN == -(1024 * 1024 * 1024)
IsNaN(v) == v = NaN

FSub(a, b) == IF IsNaN(a) \/ IsNaN(b) THEN NaN ELSE a - b
FAdd(a, b) == IF IsNaN(a) \/ IsNaN(b) THEN NaN ELSE a + b
FMul(a, b) == IF IsNaN(a) \/ IsNaN(b) THEN NaN ELSE a * b
FAbs(a) == IF IsNaN(a) THEN NaN ELSE IF a < 0 THEN -a ELSE a
\* a > b on floats: False when either is NaN.
FGt(a, b) == ~IsNaN(a) /\ ~IsNaN(b) /\ a > b
FLe(a, b) == ~IsNaN(a) /\ ~IsNaN(b) /\ a <= b

\* An exception raised instead of a value returned, and no exception.
RuntimeError == NaN - 1
ZeroDivisionError == NaN - 2
NoExc == 0
IsExc(v) == v \in {RuntimeError, ZeroDivisionError}

SetMax(S) == CHOOSE v \in S : \A w \in S : w <= v
SetMin(S) == CHOOSE v \in S : \A w \in S : v <= w
Finite(s) == {s[k] : k \in 1..Len(s)} \ {NaN}

\* Python's max(list): the first item, replaced by each later item that
\* compares greater.  A NaN in first place is never replaced and a later NaN
\* never replaces, so the result is NaN or the largest number.
PyMax(s) == IF IsNaN(s[1]) THEN NaN ELSE SetMax(Finite(s))
PyMin(s) == IF IsNaN(s[1]) THEN NaN ELSE SetMin(Finite(s))

MidLeft(a, b) == a

\* (a + b) / 2 in floating point: exact when representable, else the sum is
\* rounded to even before it is halved.
Mid(a, b) ==
    LET s == a + b
    IN IF s % 2 = 0 THEN s \div 2
       ELSE IF ((s - 1) \div 2) % 2 = 0 THEN (s - 1) \div 2
       ELSE (s + 1) \div 2

InsertAfter(s, k, v) == SubSeq(s, 1, k) \o <<v>> \o SubSeq(s, k + 1, Len(s))

\* list.insert(k - 1, v): v comes to stand before the k-th element.
Insert(s, k, v) == SubSeq(s, 1, k - 1) \o <<v>> \o SubSeq(s, k, Len(s))


(* ------------------------ the collaborators --------------------------- *)
(* The parton-level models, the PDF table and the strong coupling are     *)
(* external to RecoMtt.  They are stood in for by small integer-valued    *)
(* functions that keep what RecoMtt relies on: which arguments each one   *)
(* reads, and that different models and scales give different values.     *)

\* Instances of subclasses of PartonXSec that a RecoMtt is given.
\* "Step" is the toy model of the specification's concrete scenario,
\* "Patchy" a model with a singular region where it yields NaN,
\* "BadLabel" is a model made with a label of the CP state that check_cp
\* rejects, "Pole" one that divides by zero at one mtt, "Dip" one with a
\* narrow negative interference between two seed points.  "Fragile" divides
\* by zero at that mtt only where the strong coupling is at its largest.
SmoothModels == {"Broad", "Sharp"}
Models == SmoothModels \cup {"Step", "Patchy", "BadLabel", "Pole", "Dip"}

\* PartonXSec.var_scale of each instance, in GeV.
var_scale(m) ==
    IF m = "Sharp" THEN 20 ELSE IF m = "Patchy" THEN 10 ELSE 50

\* 2^Precision units.
U == Pow2(Precision)

\* mtt in units of x: MttU(0) is mtt_range[0], to the nearest unit below.
MttU(x) == (MttLo * XSpan) \div (MttHi - MttLo) + x

\* s < 4 mt^2 with mt = 173 GeV: mtt < 346 GeV.
BelowThreshold(x) == (MttHi - MttLo) * x < (2 * 173 - MttLo) * XSpan

\* A peak of height w at c, and a rise of height w that ends at c.
Tri(x, c, w) ==
    LET d == IF x < c THEN c - x ELSE x - c
    IN IF d < w THEN w - d ELSE 0

Rise(x, c, w) == IF x >= c THEN w ELSE Tri(x, c, w)

\* The mtt at which "Pole" divides by zero: the centre of a seed segment.
PoleAt == 105 * (U \div 2)

\* The mtt where the interference of "Dip" is lowest: the centre of a seed
\* segment on which its resonant part is zero.
DipAt == 15 * (U \div 2)

xsec_res(m, x, alpha_s) ==
    IF m = "BadLabel" THEN RuntimeError
    ELSE IF m = "Pole" /\ x = PoleAt THEN ZeroDivisionError
    ELSE IF m = "Fragile" /\ x = PoleAt /\ alpha_s = 3 THEN ZeroDivisionError
    ELSE IF BelowThreshold(x) THEN 0
    ELSE IF m = "Broad" THEN Rise(x, 280 * U, 270 * U)
    ELSE IF m = "Sharp" THEN Rise(x, 150 * U, 130 * U)
    ELSE IF m = "Step" THEN 1
    ELSE IF m = "Patchy" /\ x > 100 * U /\ x < 110 * U THEN NaN
    ELSE Rise(x, 280 * U, 270 * U)

xsec_int(m, x, alpha_s) ==
    IF BelowThreshold(x) THEN 0
    ELSE IF m = "Broad" THEN -alpha_s
    ELSE IF m = "Sharp" THEN alpha_s
    ELSE IF m = "Dip" THEN -4 * Tri(x, DipAt, U)
    ELSE 0

\* lhapdf's alphasQ, of four times the scale: decreasing in the scale.
alphasQ(q4) ==
    IF q4 < 3 * MttU(0) THEN 3 ELSE IF q4 < 8 * MttU(0) THEN 2 ELSE 1

\* shat_pdf_interp(shat) * 2 * mtt: a weight independent of the
\* parameters of RecoMtt.
PdfJacobian(x) == 1

(* ----------------------------- RecoMtt -------------------------------- *)
(* self is the record of the attributes that xsec_no_smear reads:         *)
(* parton_xsec_, muR_scale_factor_ (in halves: 2 is the factor 1.),       *)
(* target_branching (in 27ths) and add_sel_eff (in tenths).               *)

\* Four times the renormalization scale mtt / 2 * muR_scale_factor.
scale(self, x) == MttU(x) * self.muR_scale_factor_

selection_efficiency(self, x, subprocess) ==
    LET polyval == IF subprocess = "Res" THEN 4 ELSE 1
    IN polyval * self.target_branching * self.add_sel_eff

\* A frame that catches the exception and goes on with a number.
Masked(exc) == NaN

\* What a frame without try and except does with an exception that a
\* call in it raises: the exception goes on to its caller as it is.
Unwind(exc) == exc

\* An exception raised by a call of the model ends xsec_no_smear there.
xsec_no_smear(self, x) ==
    LET alpha_s == alphasQ(scale(self, x))
        r == xsec_res(self.parton_xsec_, x, alpha_s)
        t == xsec_int(self.parton_xsec_, x, alpha_s)
        res == FMul(r, selection_efficiency(self, x, "Res"))
        int_ == FMul(t, selection_efficiency(self, x, "Int"))
    IN IF IsExc(r) THEN Unwind(r)
       ELSE IF IsExc(t) THEN Unwind(t)
       ELSE FMul(FAdd(res, int_), PdfJacobian(x))

\* Python's round(a / b) for positive integers: halves go to even.
PyRound(a, b) ==
    LET q == a \div b
        r == a % b
    IN IF 2 * r < b THEN q
       ELSE IF 2 * r > b THEN q + 1
       ELSE IF q % 2 = 0 THEN q ELSE q + 1

MinPointsOnly(self) == MinPoints

num_points(self) ==
    LET r == PyRound(MttHi - MttLo, var_scale(self.parton_xsec_))
    IN IF r > MinPoints THEN r ELSE MinPoints

\* np.linspace(mtt_range[0], mtt_range[1], num=n), as offsets.
Linspace(n) == [k \in 1..n |-> ((k - 1) * XSpan) \div (n - 1)]

ToleranceOfMax(xsec_values, den) == [num |-> PyMax(xsec_values), den |-> den]

\* tolerance = rel_tolerance * (max - min), rel_tolerance = 1 / den, kept
\* as the fraction num / den.
Tolerance(xsec_values, den) ==
    [num |-> FSub(PyMax(xsec_values), PyMin(xsec_values)), den |-> den]

\* v > tolerance, for a float v.
ExceedsTol(v, tolerance) == FGt(FMul(v, tolerance.den), tolerance.num)

\* build_xsec_grid up to the start of the loop: the seed grid, the cross
\* section at every seed point, the tolerance and i = 0.
\* When the evaluation at a seed point raises, the points after it keep
\* the 0. they were given, and raised is the exception.
SeedGrid(self, den) ==
    LET mtt == Linspace(num_points(self))
        xsec == [k \in 1..Len(mtt) |-> xsec_no_smear(self, mtt[k])]
        bad == {k \in 1..Len(mtt) : IsExc(xsec[k])}
    IN IF bad = {}
       THEN [mtt_values |-> mtt, xsec_values |-> xsec,
             tolerance |-> Tolerance(xsec, den), i |-> 0,
             evals |-> Len(mtt), raised |-> NoExc]
       ELSE [mtt_values |-> mtt,
             xsec_values |-> [k \in 1..Len(mtt) |->
                                 IF k < SetMin(bad) THEN xsec[k] ELSE 0],
             tolerance |-> [num |-> 0, den |-> den], i |-> 0,
             evals |-> SetMin(bad), raised |-> Unwind(xsec[SetMin(bad)])]

\* The condition of the while loop.
LoopCond(b) == b.i < Len(b.mtt_values) - 1

\* The test of one segment: the change over it, or twice the deviation at
\* its centre from the linear interpolation, exceeds the tolerance.
\* (deviation > tolerance / 2 is 2 * deviation > tolerance.)
SegmentFails(ya, yb, ym, tolerance) ==
    \/ ExceedsTol(FAbs(FSub(yb, ya)), tolerance)
    \/ ExceedsTol(FAbs(FSub(FMul(2, ym), FAdd(ya, yb))), tolerance)

\* One iteration of the while loop (i is 0-based as in the code).
RefineStep(self, b) ==
    LET mean_mtt == Mid(b.mtt_values[b.i + 1], b.mtt_values[b.i + 2])
        xsec_mean_mtt == xsec_no_smear(self, mean_mtt)
    IN IF IsExc(xsec_mean_mtt)
       THEN [b EXCEPT !.raised = Unwind(xsec_mean_mtt), !.evals = @ + 1]
       ELSE IF SegmentFails(b.xsec_values[b.i + 1], b.xsec_values[b.i + 2],
                            xsec_mean_mtt, b.tolerance)
       THEN [b EXCEPT !.mtt_values = Insert(@, b.i + 2, mean_mtt),
                      !.xsec_values = Insert(@, b.i + 2, xsec_mean_mtt),
                      !.evals = @ + 1]
       ELSE [b EXCEPT !.i = @ + 1, !.evals = @ + 1]

\* The segment under test fails and its centre is one of its ends: the
\* iteration inserts a sample that does not split it.
Degenerate(self, b) ==
    /\ LoopCond(b)
    /\ LET a == b.mtt_values[b.i + 1]
           c == b.mtt_values[b.i + 2]
       IN /\ Mid(a, c) \in {a, c}
          /\ SegmentFails(b.xsec_values[b.i + 1], b.xsec_values[b.i + 2],
                          xsec_no_smear(self, Mid(a, c)), b.tolerance)

\* build_xsec_grid is in its loop: nothing was raised and the condition
\* of the loop holds.
Running(b) == b.raised = NoExc /\ LoopCond(b)

\* Run(self, b, k) makes 2^k iterations of the loop, or as many as it makes
\* before it ends.
LoopIter(self, b) == IF Running(b) THEN RefineStep(self, b) ELSE b

RECURSIVE Run(_, _, _)
Run(self, b, k) ==
    IF k = 0 THEN LoopIter(self, b)
    ELSE LET half == Run(self, b, k - 1)
         IN IF Running(half) THEN Run(self, half, k - 1) ELSE half

\* The locals of build_xsec_grid(rel_tolerance = 1 / den) when its loop
\* ends or an exception leaves it.  When the loop does not end within
\* 2^FuelBits iterations, Running holds of the result.
BuildResult(self, den) == Run(self, SeedGrid(self, den), FuelBits)

\* None for the grid and the interpolant.
None == [x |-> <<>>, y |-> <<>>]

\* self.xsec_nosmear_grid = np.array([mtt_values, xsec_values])
StoredGrid(b) == [x |-> b.mtt_values, y |-> b.xsec_values]

\* Other ways to treat the cache than the code's, which the properties
\* below are required to tell apart from the code's.
InterpKept(interp) == interp
InterpDropped(interp) == None
GridKept(grid) == grid
GridDropped(grid) == None
AlwaysMissing(grid) == TRUE

\* self.xsec_nosmear_interp = None, the last line of build_xsec_grid.
InterpAfterBuild(interp) == None

\* self.xsec_nosmear_grid = None, the last line of the setters of
\* muR_scale_factor and parton_xsec.
GridAfterAssign(grid) == None

\* The interpolant after the same setters, which do not assign it.
InterpAfterAssign(interp) == interp

\* The grid after an assignment of resolution, target_branching or
\* add_sel_eff: plain attributes, whose assignment runs no code of RecoMtt.
GridAfterPlainAssign(grid) == grid

\* if self.xsec_nosmear_grid is None, the first line of xsec.
GridMissing(grid) == grid = None

\* if self.xsec_nosmear_interp is None: interp1d over the rows of the grid
\* (copy=False); else the cached one.
InterpUsed(interp, grid) == IF interp = None THEN grid ELSE interp

\* The mtt of the grid offset g is below (at most) c100 / 100 GeV.
MttBelow(g, c100) ==
    100 * (MttLo * XSpan + (MttHi - MttLo) * g) < c100 * XSpan
MttAtMost(g, c100) ==
    100 * (MttLo * XSpan + (MttHi - MttLo) * g) <= c100 * XSpan

\* np.searchsorted(xs, c100 / 100, 'left') and (..., 'right').
SearchSortedLeft(xs, c100) ==
    Cardinality({k \in 1..Len(xs) : MttBelow(xs[k], c100)})
SearchSortedRight(xs, c100) ==
    Cardinality({k \in 1..Len(xs) : MttAtMost(xs[k], c100)})

HalfWidthOneSigma(mtt, num_sigma, res) == res * mtt

\* half_width = num_sigma * resolution * mtt, times 100 (res is the
\* resolution in hundredths).
HalfWidth100(mtt, num_sigma, res) == num_sigma * res * mtt

WindowStart(grid, mtt, num_sigma, res) ==
    SearchSortedLeft(grid.x, 100 * mtt - HalfWidth100(mtt, num_sigma, res))
WindowEnd(grid, mtt, num_sigma, res) ==
    SearchSortedRight(grid.x, 100 * mtt + HalfWidth100(mtt, num_sigma, res))

\* (end - start) / num_sigma > 20
DirectPath(start, end, num_sigma) ==
    end - start > DensityThreshold * num_sigma

(* ---------------------- the sums of RecoMtt.xsec ---------------------- *)

\* x = np.linspace(mtt - half_width, mtt + half_width, num=101), times 100.
\* The points are whole numbers for the mtt used, multiples of 50 GeV.
Resample(mtt, num_sigma, res) ==
    LET half_width == HalfWidth100(mtt, num_sigma, res)
    IN [j \in 1..NumResample |->
           100 * mtt - half_width
              + ((j - 1) * 2 * half_width) \div (NumResample - 1)]

\* interp1d(grid[0], grid[1], bounds_error=False, fill_value=0.) called at
\* x100 / 100: below or above the range of grid[0] it gives fill_value and
\* does not raise; inside it interpolates.
InterpCall(interp, x100) ==
    [below |-> ~MttAtMost(interp.x[1], x100),
     above |-> MttBelow(interp.x[Len(interp.x)], x100)]

\* sigma = self.resolution * x[i], in units of 1e-4 GeV.
KernelSigma(res, x100) == res * x100

\* weight = 1 / sigma * math.exp(-0.5 * ((mtt - x[i]) / sigma) ** 2) with
\* sigma a numpy.float64: at sigma = 0 the quotients are inf, the
\* exponential is 0 and the product nan; elsewhere the weight has the sign
\* of sigma or has underflowed to zero.
KernelWeight(sigma) ==
    IF sigma = 0 THEN "nan" ELSE IF sigma > 0 THEN "positive" ELSE "negative"

\* y[i] = self.xsec_nosmear_interp(x[i]) * weight
Summand(at, weight) ==
    IF weight = "nan" THEN "nan"
    ELSE IF at.below \/ at.above THEN "zero"
    ELSE "value"

\* The sum over the resampled points.
InterpolatedSum(interp, res, mtt, num_sigma) ==
    LET x == Resample(mtt, num_sigma, res)
        sigma == [j \in 1..Len(x) |-> KernelSigma(res, x[j])]
    IN [path |-> "interpolated", x |-> x, sigma |-> sigma,
        y |-> [j \in 1..Len(x) |->
                  Summand(InterpCall(interp, x[j]),
                          KernelWeight(sigma[j]))]]

\* The grid offset g as mtt times 100, rounded down.
Mtt100(g) == (100 * (MttLo * XSpan + (MttHi - MttLo) * g)) \div XSpan

\* The sum over the points of the grid from start to end - 1.
DirectSum(grid, res, start, end) ==
    LET x == [j \in 1..(end - start) |-> Mtt100(grid.x[start + j])]
        sigma == [j \in 1..Len(x) |-> KernelSigma(res, x[j])]
    IN [path |-> "direct", x |-> x, sigma |-> sigma,
        y |-> [j \in 1..Len(x) |->
                  IF KernelWeight(sigma[j]) = "nan" THEN "nan" ELSE "value"]]

\* xsec after the grid is there.
Convolution(grid, interp, res, mtt, num_sigma) ==
    LET start == WindowStart(grid, mtt, num_sigma, res)
        end == WindowEnd(grid, mtt, num_sigma, res)
    IN IF DirectPath(start, end, num_sigma)
       THEN DirectSum(grid, res, start, end)
       ELSE InterpolatedSum(InterpUsed(interp, grid), res, mtt, num_sigma)

\* No xsec has returned.
NoConvolution == [path |-> "", x |-> <<>>, sigma |-> <<>>, y |-> <<>>]

(* ------------------------------- state -------------------------------- *)

VARIABLES
    parton_xsec_,          \* RecoMtt.parton_xsec_
    muR_scale_factor_,     \* RecoMtt.muR_scale_factor_, in halves
    resolution,            \* RecoMtt.resolution, in hundredths
    target_branching,      \* RecoMtt.target_branching, in 27ths
    add_sel_eff,           \* RecoMtt.add_sel_eff, in tenths
    xsec_nosmear_grid,     \* RecoMtt.xsec_nosmear_grid, or None
    xsec_nosmear_interp,   \* RecoMtt.xsec_nosmear_interp, or None
    pc,                    \* position in build_xsec_grid (SpecBuild)
    rel_tolerance,         \* its argument, as the denominator of 1 / den
    mtt_values,            \* its local lists and variables
    xsec_values,
    tolerance,
    i,
    evals,                 \* xsec_no_smear evaluations made by the call of
                           \* build_xsec_grid or xsec that runs or ran last
    last,                  \* the operation made last, with the path xsec took
    raised,                \* the exception that the call made last has
                           \* passed to its caller, or NoExc
    stack,                 \* the frames of RecoMtt under the running call
    query,                 \* the arguments of the running xsec
    var_scale_,            \* PartonXSec.var_scale_ of each model object
    assigned,              \* the value last assigned to its var_scale
    read,                  \* the outcome of the read of var_scale made last
    call,                  \* the call of a cross section of a concrete
                           \* model made last, with what it returned
    readers,               \* the threads that call xsec of one RecoMtt at
                           \* the same time: where each is, and its locals
    signal_distr_calc,     \* StatCalc.signal_distr_calc
    _signal_templates,     \* StatCalc._signal_templates, or None
    _workspace,            \* StatCalc._workspace, or None
    built,                 \* how many times the templates and the workspace
                           \* were completed since the signal was assigned
    answers,               \* what significance() and cls() gave their
                           \* caller last
    grid_x,                \* Grid.x
    grid_y,                \* Grid.y
    significance,          \* Grid.significance, indexed [ix, iy]
    cls,                   \* Grid.cls, indexed [ix, iy]
    iter,                  \* the generator of Grid.__iter__: its ix and iy
    yielded,               \* what it has yielded, in order
    last_set,              \* the Grid.set made last: its arguments and
                           \* what it raised
    postfix,               \* _build_signal_templates: the postfix of the
                           \* variation whose histograms were filled last
    xsec_integral,         \* its xsec_integral, one value per bin
    hist_pos,              \* its hist_pos, one content per bin
    hist_neg,              \* its hist_neg, one content per bin
    convolution,           \* the locals of the xsec that returned last:
                           \* the points it summed over, the width of the
                           \* kernel at each and the summands
    templ                  \* where StatCalc._build_signal_templates stands:
                           \* the variation, the bin and the sample, with
                           \* the scale factors it has assigned and the
                           \* builds of the grid under each

\* The state of the objects other than RecoMtt.
partonVars == <<var_scale_, assigned, read>>
modelVars == <<call>>
readerVars == <<readers>>
statVars == <<signal_distr_calc, _signal_templates, _workspace, built,
              answers>>
gridVars == <<grid_x, grid_y, significance, cls, iter, yielded, last_set>>
histVars == <<postfix, xsec_integral, hist_pos, hist_neg>>
convVars == <<convolution>>
templVars == <<templ>>
elsewhere == <<partonVars, modelVars, readerVars, statVars, gridVars,
              histVars, convVars, templVars>>

vars == <<parton_xsec_, muR_scale_factor_, resolution, target_branching,
          add_sel_eff, xsec_nosmear_grid, xsec_nosmear_interp, pc,
          rel_tolerance, mtt_values, xsec_values, tolerance, i, evals,
          last, raised, stack, query, elsewhere>>

\* All but the state of one kind of object.
exceptParton == <<modelVars, readerVars, statVars, gridVars, histVars,
    convVars, templVars>>
exceptModel == <<partonVars, readerVars, statVars, gridVars, histVars,
    convVars, templVars>>
exceptReaders == <<partonVars, modelVars, statVars, gridVars, histVars,
    convVars, templVars>>
exceptStat == <<partonVars, modelVars, readerVars, gridVars, histVars,
    convVars, templVars>>
exceptGrid == <<partonVars, modelVars, readerVars, statVars, histVars,
    convVars, templVars>>
exceptHist == <<partonVars, modelVars, readerVars, statVars, gridVars,
    convVars, templVars>>
exceptConv == <<partonVars, modelVars, readerVars, statVars, gridVars,
    histVars, templVars>>
exceptTempl == <<partonVars, modelVars, readerVars, statVars, gridVars,
    histVars, convVars>>

\* All of RecoMtt.
recoVars == <<parton_xsec_, muR_scale_factor_, resolution, target_branching,
              add_sel_eff, xsec_nosmear_grid, xsec_nosmear_interp, pc,
              rel_tolerance, mtt_values, xsec_values, tolerance, i, evals,
              last, raised, stack, query>>

attrs == <<parton_xsec_, muR_scale_factor_, resolution, target_branching,
           add_sel_eff>>
locals == <<rel_tolerance, mtt_values, xsec_values, tolerance, i, evals>>


Self == [parton_xsec_ |-> parton_xsec_,
         muR_scale_factor_ |-> muR_scale_factor_,
         target_branching |-> target_branching,
         add_sel_eff |-> add_sel_eff]

\* The locals of the running build_xsec_grid as one record.
Locals == [mtt_values |-> mtt_values, xsec_values |-> xsec_values,
           tolerance |-> tolerance, i |-> i, evals |-> evals,
           raised |-> raised]

\* No xsec is running.
NoQuery == [mtt |-> 0, num_sigma |-> 0]

\* The values the operations are called with.
MuRValues == {1, 2, 4}
CacheMuRValues == {2, 4}
RelTolDens == {DefaultRelTolDen, 50}
Resolutions == {1, 20}
TargetBranchings == {8, 9}
AddSelEffs == {3, 4}
QueryMtts == {400, 1000}
NumSigmas == {DefaultNumSigma}

(* ------------------------ PartonXSec.var_scale ------------------------ *)

\* Largest value assigned to var_scale.
VarScaleMax == 6

\* Model objects under construction or in use.
Objs == {"o1", "o2"}

\* var_scale_ of an object whose constructor has not run
\* PartonXSec.__init__, and of one whose constructor has: None.
NoAttribute == -2
PyNone == -1

\* The outcome of a read that has not been made.
Unread == [obj |-> "", raised |-> "", value |-> 0]

\* An alternative to the getter, without its test.
VarScaleUnchecked(v) == [raised |-> "", value |-> v]

\* The getter of var_scale, of an object whose var_scale_ is v.
VarScaleGet(v) ==
    IF v = NoAttribute THEN [raised |-> "AttributeError", value |-> 0]
    ELSE IF v = PyNone THEN [raised |-> "NotImplementedError", value |-> 0]
    ELSE [raised |-> "", value |-> v]

\* No model object has been touched.
PartonAtRest ==
    /\ var_scale_ = [o \in Objs |-> PyNone]
    /\ assigned = [o \in Objs |-> 0]
    /\ read = Unread

(* ---------------- the cross sections of the concrete models ----------- *)

\* PartonXSec.mt, in GeV.
Mt == 173

\* sqrt_s runs over the integers within ThresholdSpan of 2 mt.
ThresholdSpan == 6
SqrtSValues == (2 * Mt - ThresholdSpan)..(2 * Mt + ThresholdSpan)
AlphaSValues == {1, 2, 3}

\* The argument taken for sqrt(s) where the method takes s.
BelowAsSqrtS(s) == s < 2 * Mt

\* if s < 4 * self.mt ** 2, the first statement of every cross section of
\* XSecTwoHDM, of hmssm.PartonXSec and of XSecVLQ.
TwoHDMBelow(s) == s < 4 * Mt * Mt
HMSSMBelow(s) == s < 4 * Mt * Mt
VLQBelow(s) == s < 4 * Mt * Mt

\* The expressions after the test, which the model stands in for by
\* integers that keep their sign, their dependence on s and alpha_s and
\* their zero at beta = 0: resonant parts are positive, interference parts
\* change sign with s - m^2, here at m = 2 mt + 3.
AboveRes(s, alpha_s) == alpha_s * alpha_s * (s - 4 * Mt * Mt)
AboveInt(s, alpha_s) ==
    -alpha_s * alpha_s * (s - 4 * Mt * Mt)
       * (s - (2 * Mt + 3) * (2 * Mt + 3))

IsRes(method) == method \in {"xsec_even_res", "xsec_odd_res", "xsec_res"}

\* XSecTwoHDM.xsec_even_res, xsec_even_int, xsec_odd_res, xsec_odd_int.
TwoHDMComponent(method, sqrt_s, alpha_s) ==
    LET s == sqrt_s * sqrt_s
    IN IF TwoHDMBelow(s) THEN 0
       ELSE IF IsRes(method) THEN AboveRes(s, alpha_s)
       ELSE AboveInt(s, alpha_s)

\* XSecTwoHDM.xsec_res and xsec_int: the sum of the even and the odd part.
TwoHDMXsec(method, sqrt_s, alpha_s) ==
    IF method = "xsec_res"
    THEN TwoHDMComponent("xsec_even_res", sqrt_s, alpha_s)
         + TwoHDMComponent("xsec_odd_res", sqrt_s, alpha_s)
    ELSE IF method = "xsec_int"
    THEN TwoHDMComponent("xsec_even_int", sqrt_s, alpha_s)
         + TwoHDMComponent("xsec_odd_int", sqrt_s, alpha_s)
    ELSE TwoHDMComponent(method, sqrt_s, alpha_s)

\* The same methods of hmssm.PartonXSec, which take s.
HMSSMComponent(method, s, alphaS) ==
    IF HMSSMBelow(s) THEN 0
    ELSE IF IsRes(method) THEN AboveRes(s, alphaS)
    ELSE AboveInt(s, alphaS)

HMSSMXsec(method, s, alphaS) ==
    IF method = "xsec_res"
    THEN HMSSMComponent("xsec_even_res", s, alphaS)
         + HMSSMComponent("xsec_odd_res", s, alphaS)
    ELSE IF method = "xsec_int"
    THEN HMSSMComponent("xsec_even_int", s, alphaS)
         + HMSSMComponent("xsec_odd_int", s, alphaS)
    ELSE HMSSMComponent(method, s, alphaS)

\* XSecVLQ.xsec_res and xsec_int.
VLQXsec(method, sqrt_s, alpha_s) ==
    LET s == sqrt_s * sqrt_s
    IN IF VLQBelow(s) THEN 0
       ELSE IF IsRes(method) THEN AboveRes(s, alpha_s)
       ELSE AboveInt(s, alpha_s)

ComponentMethods ==
    {"xsec_even_res", "xsec_even_int", "xsec_odd_res", "xsec_odd_int",
     "xsec_res", "xsec_int"}

\* No cross section has been called.
NoCall == [class |-> "", method |-> "", s |-> 0, alpha_s |-> 0, result |-> 0]

ModelsAtRest == call = NoCall

CallTwoHDM(method, sqrt_s, alpha_s) ==
    /\ call' = [class |-> "XSecTwoHDM", method |-> method,
                s |-> sqrt_s * sqrt_s, alpha_s |-> alpha_s,
                result |-> TwoHDMXsec(method, sqrt_s, alpha_s)]
    /\ UNCHANGED <<recoVars, exceptModel>>

CallHMSSM(method, s, alphaS) ==
    /\ call' = [class |-> "hmssm.PartonXSec", method |-> method,
                s |-> s, alpha_s |-> alphaS,
                result |-> HMSSMXsec(method, s, alphaS)]
    /\ UNCHANGED <<recoVars, exceptModel>>

CallVLQ(method, sqrt_s, alpha_s) ==
    /\ call' = [class |-> "XSecVLQ", method |-> method,
                s |-> sqrt_s * sqrt_s, alpha_s |-> alpha_s,
                result |-> VLQXsec(method, sqrt_s, alpha_s)]
    /\ UNCHANGED <<recoVars, exceptModel>>

(* ------------------- concurrent callers of RecoMtt.xsec --------------- *)

NumThreads == 2
Threads == 1..NumThreads

\* What a call of xsec returned: the kind of sum, the window, and the
\* samples that were summed over (those of the grid, or those that the
\* interpolant was built over); or what it raised.
NoResult == [raised |-> "", path |-> "", start |-> 0, end |-> 0, data |-> <<>>]

\* A thread that is not inside xsec.
Outside ==
    [pc |-> "outside", mtt |-> 0, num_sigma |-> 0, start |-> 0, end |-> 0,
     interp |-> <<>>, result |-> NoResult]

\* No thread calls xsec.
ReadersAtRest == readers = [built |-> <<>>, q |-> [t \in Threads |-> Outside]]

(* ------------------------------ StatCalc ------------------------------ *)

\* The objects given as signal_distr: each is a RecoMtt whose xsec
\* returns for every scale factor (fails = 0), or raises under the first,
\* the second or the third of the scale factors that
\* _build_signal_templates assigns.  None, which the scans construct the
\* StatCalc with, has no attribute to assign: it fails at the first.
MaxSignals == 3
NoSignal == [id |-> 0, fails |-> 1]
Signals == [id : 1..MaxSignals, fails : 0..3]

\* for muR_scale_factor, postfix in [(1., ''), (2., '_RenormScaleUp'),
\* (0.5, '_RenormScaleDown')]
NumScaleFactors == 3
\* hist_pos and hist_neg
TemplatesPerFactor == 2

\* A Python None held by an attribute of StatCalc.
Absent == [of |-> NoSignal, entries |-> -1]

\* not self._signal_templates, not self._workspace
Falsy(v) == v = Absent \/ v.entries = 0

\* _build_signal_templates: the dictionary starts empty and gets two
\* histograms per scale factor, until xsec raises.
BuildSignalTemplates(signal) ==
    LET done == IF signal.fails = 0 THEN NumScaleFactors
                ELSE signal.fails - 1
    IN [raised |-> IF signal.fails = 0 THEN "" ELSE "raised in xsec",
        templates |-> [of |-> signal, entries |-> TemplatesPerFactor * done]]

\* The part of _build_model after the templates: it reads the six
\* templates by name and makes the workspace.
MakeWorkspace(templates) ==
    IF templates.entries < TemplatesPerFactor * NumScaleFactors
    THEN [raised |-> "KeyError", workspace |-> Absent]
    ELSE [raised |-> "", workspace |-> [of |-> templates.of, entries |-> 1]]

WorkspaceKept(workspace) == workspace

\* update_signal: self._signal_templates = None
TemplatesAfterUpdate(templates) == Absent

\* update_signal: self._workspace = None
WorkspaceAfterUpdate(workspace) == Absent

\* _build_model
BuildModel(signal, templates) ==
    LET t == IF Falsy(templates) THEN BuildSignalTemplates(signal)
             ELSE [raised |-> "", templates |-> templates]
        w == IF t.raised # "" THEN [raised |-> t.raised, workspace |-> Absent]
             ELSE MakeWorkspace(t.templates)
    IN [raised |-> w.raised, templates |-> t.templates,
        workspace |-> w.workspace,
        builtTemplates |-> IF Falsy(templates) /\ t.raised = "" THEN 1 ELSE 0,
        builtWorkspace |-> IF w.raised = "" THEN 1 ELSE 0]

\* What a call gave: the signal whose workspace it tested, or what it
\* raised.  NoAnswer: never called.
NoAnswer == [raised |-> "", of |-> NoSignal]

\* StatCalc(None, bkgfile, lumi)
StatAtRest ==
    /\ signal_distr_calc = NoSignal
    /\ _signal_templates = Absent
    /\ _workspace = Absent
    /\ built = [templates |-> 0, workspace |-> 0]
    /\ answers = [last |-> "", significance |-> NoAnswer, cls |-> NoAnswer]

\* calc.update_signal(signal_distr)
UpdateSignal(signal_distr) ==
    /\ signal_distr_calc' = signal_distr
    /\ _signal_templates' = TemplatesAfterUpdate(_signal_templates)
    /\ _workspace' = WorkspaceAfterUpdate(_workspace)
    /\ built' = [templates |-> 0, workspace |-> 0]
    /\ answers' = [answers EXCEPT !.last = ""]
    /\ UNCHANGED <<recoVars, exceptStat>>

\* The common course of significance() and cls(): if not self._workspace:
\* self._build_model(), then the test on the workspace.
HypoTest(test) ==
    /\ IF Falsy(_workspace)
       THEN LET m == BuildModel(signal_distr_calc, _signal_templates)
            IN /\ _signal_templates' = m.templates
               /\ _workspace' =
                      IF m.raised = "" THEN m.workspace ELSE _workspace
               /\ built' = [templates |-> built.templates + m.builtTemplates,
                            workspace |-> built.workspace + m.builtWorkspace]
               /\ answers' = [answers EXCEPT
                                 !.last = test,
                                 ![test] = [raised |-> m.raised,
                                            of |-> m.workspace.of]]
       ELSE /\ answers' = [answers EXCEPT
                              !.last = test,
                              ![test] = [raised |-> "", of |-> _workspace.of]]
            /\ UNCHANGED <<_signal_templates, _workspace, built>>
    /\ UNCHANGED signal_distr_calc
    /\ UNCHANGED <<recoVars, exceptStat>>

\* calc.significance()
Significance == HypoTest("significance")

\* calc.cls()
Cls == HypoTest("cls")

(* -------------------------------- Grid -------------------------------- *)

\* The largest numbers of coordinates along x and along y.
MaxX == 2
MaxY == 2

\* Coordinates in ascending order; the arrays are indexed from 0.
Coordinates(n, first, step) == [k \in 0..(n - 1) |-> first + step * k]

\* The nodes [ix, iy] of the arrays.
Nodes(xs, ys) == (DOMAIN xs) \X (DOMAIN ys)

\* np.zeros((len(x), len(y)))
Zeros(xs, ys) == [n \in Nodes(xs, ys) |-> 0]

\* A generator that has not been made, or has ended.
NoIter == [ix |-> -1, iy |-> -1]

\* set has not been called.
NoSet == [global_index |-> -1, significance |-> 0, cls |-> 0, raised |-> ""]

\* Grid(x, y)
GridInit(xs, ys) ==
    /\ grid_x = xs
    /\ grid_y = ys
    /\ significance = Zeros(xs, ys)
    /\ cls = Zeros(xs, ys)
    /\ iter = NoIter
    /\ yielded = <<>>
    /\ last_set = NoSet

GridAtRest == GridInit(Coordinates(1, 0, 1), Coordinates(1, 0, 1))

\* Python's len(), % and // on a global index that is not negative.
PyLen(xs) == Cardinality(DOMAIN xs)

\* range(n) entered, or stepped from k: the next value, or -1 at its end.
RangeNext(k, n) == IF k + 1 < n THEN k + 1 ELSE -1

\* global_index = ix + iy * len(self.x)
GlobalIndex(ix, iy, xs) == ix + iy * PyLen(xs)

\* iter(grid): both loops are entered; there is nothing to yield when one
\* of the axes is empty.
IterStart ==
    /\ iter' = IF PyLen(grid_x) = 0 \/ PyLen(grid_y) = 0 THEN NoIter
               ELSE [ix |-> 0, iy |-> 0]
    /\ yielded' = <<>>
    /\ UNCHANGED <<grid_x, grid_y, significance, cls, last_set>>
    /\ UNCHANGED <<recoVars, exceptGrid>>

\* yield (global_index, self.x[ix], self.y[iy]), with the node it is at.
Yield(it, xs, ys) ==
    [global_index |-> GlobalIndex(it.ix, it.iy, xs),
     x |-> xs[it.ix], y |-> ys[it.iy], node |-> <<it.ix, it.iy>>]

\* The inner loop steps, or the outer one at the end of the inner.
Advance(it, xs, ys) ==
    LET ix == RangeNext(it.ix, PyLen(xs))
        iy == RangeNext(it.iy, PyLen(ys))
    IN IF ix # -1 THEN [it EXCEPT !.ix = ix]
       ELSE IF iy # -1 THEN [ix |-> 0, iy |-> iy]
       ELSE NoIter

\* next()
IterNext ==
    /\ iter # NoIter
    /\ yielded' = Append(yielded, Yield(iter, grid_x, grid_y))
    /\ iter' = Advance(iter, grid_x, grid_y)
    /\ UNCHANGED <<grid_x, grid_y, significance, cls, last_set>>
    /\ UNCHANGED <<recoVars, exceptGrid>>

SetIxFloor(global_index, xs, ys) == global_index \div PyLen(xs)

\* ix = global_index % len(self.x)
SetIx(global_index, xs, ys) == global_index % PyLen(xs)

\* iy = global_index // len(self.x)
SetIy(global_index, xs, ys) == global_index \div PyLen(xs)

\* grid.set(global_index, significance, cls)
Set(global_index, significance_, cls_) ==
    LET call_ == [global_index |-> global_index,
                  significance |-> significance_, cls |-> cls_,
                  raised |-> ""]
    IN /\ IF PyLen(grid_x) = 0
          THEN /\ last_set' = [call_ EXCEPT !.raised = "ZeroDivisionError"]
               /\ UNCHANGED <<significance, cls>>
          ELSE LET ix == SetIx(global_index, grid_x, grid_y)
                   iy == SetIy(global_index, grid_x, grid_y)
               IN IF <<ix, iy>> \notin Nodes(grid_x, grid_y)
                  THEN /\ last_set' = [call_ EXCEPT !.raised = "IndexError"]
                       /\ UNCHANGED <<significance, cls>>
                  ELSE /\ significance' =
                             [significance EXCEPT
                                 ![<<ix, iy>>] = significance_]
                       /\ cls' = [cls EXCEPT ![<<ix, iy>>] = cls_]
                       /\ last_set' = call_
       /\ UNCHANGED <<grid_x, grid_y, iter, yielded>>
       /\ UNCHANGED <<recoVars, exceptGrid>>

(* ------------ the histograms of _build_signal_templates -------------- *)

\* len(self.binning) - 1, the number of bins of the background file.
NumBins == 3

Postfixes == {"", "_RenormScaleUp", "_RenormScaleDown"}

\* The values of trapz(y, x) over a bin: the cross section with the
\* interference is of either sign, and it is nan when a sample of the
\* grid that xsec summed is nan.
BinValues == {-3, 0, 2, NaN}

\* Python's value >= 0., which is False of nan.
FGe0(value) == FLe(0, value)

\* ROOT.TH1D(...) and its Clone: every bin holds 0.
EmptyHist(n) == [k \in 1..n |-> 0]

\* hist_pos after the loop over the bins: SetBinContent(ibin + 1, value)
\* where value >= 0.
HistPos(values) ==
    [k \in 1..Len(values) |->
        IF FGe0(values[k]) THEN values[k] ELSE EmptyHist(Len(values))[k]]

\* hist_neg after the loop over the bins and hist_neg.Scale(-1.)
HistNeg(values) ==
    [k \in 1..Len(values) |->
        FMul(-1, IF FGe0(values[k]) THEN EmptyHist(Len(values))[k]
                 ELSE values[k])]

\* No histogram has been filled.
HistAtRest ==
    /\ postfix = "none"
    /\ xsec_integral = <<>>
    /\ hist_pos = <<>>
    /\ hist_neg = <<>>

\* One round of the loop over the scale factors, after the integration:
\* the two histograms of the variation are made and filled.
FillHistograms(postfix_, values) ==
    /\ postfix' = postfix_
    /\ xsec_integral' = values
    /\ hist_pos' = HistPos(values)
    /\ hist_neg' = HistNeg(values)
    /\ UNCHANGED <<recoVars, exceptHist>>

ConvAtRest == convolution = NoConvolution

\* _build_signal_templates is not running.
NoTempl == [pc |-> "idle", variation |-> 0, ibin |-> 0, isample |-> 0,
            assigned |-> <<>>, builds |-> <<>>]

TemplAtRest == templ = NoTempl

ElsewhereAtRest ==
    /\ PartonAtRest
    /\ ModelsAtRest
    /\ ReadersAtRest
    /\ StatAtRest
    /\ GridAtRest
    /\ HistAtRest
    /\ ConvAtRest
    /\ TemplAtRest

\* The constructor of a subclass has run for every object, up to the
\* point where it may assign var_scale: with PartonXSec.__init__ or, as
\* XSecTwoHDM.__init__, without it.
InitParton ==
    /\ var_scale_ \in [Objs -> {NoAttribute, PyNone}]
    /\ assigned = [o \in Objs |-> 0]
    /\ read = Unread

\* o.var_scale = v
SetVarScale(o, v) ==
    /\ var_scale_' = [var_scale_ EXCEPT ![o] = v]
    /\ assigned' = [assigned EXCEPT ![o] = v]
    /\ read' = Unread
    /\ UNCHANGED <<recoVars, exceptParton>>

\* o.var_scale is read.
ReadVarScale(o) ==
    /\ LET r == VarScaleGet(var_scale_[o])
       IN read' = [obj |-> o, raised |-> r.raised, value |-> r.value]
    /\ UNCHANGED <<var_scale_, assigned, recoVars, exceptParton>>

(* ------------------------ the cache of RecoMtt ------------------------ *)

idle == <<pc, rel_tolerance, mtt_values, xsec_values, tolerance, i, stack,
          query>>

\* RecoMtt(parton_xsec, resolution)
Init ==
    /\ parton_xsec_ \in SmoothModels
    /\ muR_scale_factor_ = 2
    /\ resolution \in Resolutions
    /\ target_branching = 8
    /\ add_sel_eff = 3
    /\ xsec_nosmear_grid = None
    /\ xsec_nosmear_interp = None
    /\ pc = "idle"
    /\ rel_tolerance = 0
    /\ mtt_values = <<>>
    /\ xsec_values = <<>>
    /\ tolerance = [num |-> 0, den |-> 1]
    /\ i = 0
    /\ evals = 0
    /\ last = "__init__"
    /\ raised = NoExc
    /\ stack = <<>>
    /\ query = NoQuery
    /\ ElsewhereAtRest

\* reco_mtt.parton_xsec = m
SetPartonXSec(m) ==
    /\ parton_xsec_' = m
    /\ xsec_nosmear_grid' = GridAfterAssign(xsec_nosmear_grid)
    /\ evals' = 0
    /\ xsec_nosmear_interp' = InterpAfterAssign(xsec_nosmear_interp)
    /\ last' = "parton_xsec"
    /\ raised' = NoExc
    /\ UNCHANGED elsewhere
    /\ UNCHANGED <<muR_scale_factor_, resolution, target_branching,
                   add_sel_eff, idle>>

\* The setter of muR_scale_factor, on the RecoMtt alone.
MuRScaleFactorSetter(f) ==
    /\ muR_scale_factor_' = f
    /\ xsec_nosmear_grid' = GridAfterAssign(xsec_nosmear_grid)
    /\ evals' = 0
    /\ xsec_nosmear_interp' = InterpAfterAssign(xsec_nosmear_interp)
    /\ last' = "muR_scale_factor"
    /\ raised' = NoExc
    /\ UNCHANGED <<parton_xsec_, resolution, target_branching,
                   add_sel_eff>>

\* reco_mtt.muR_scale_factor = f / 2
SetMuRScaleFactor(f) ==
    /\ MuRScaleFactorSetter(f)
    /\ UNCHANGED elsewhere
    /\ UNCHANGED idle

\* reco_mtt.resolution = r / 100: a plain attribute.
SetResolution(r) ==
    /\ resolution' = r
    /\ xsec_nosmear_grid' = GridAfterPlainAssign(xsec_nosmear_grid)
    /\ evals' = 0
    /\ last' = "resolution"
    /\ raised' = NoExc
    /\ UNCHANGED elsewhere
    /\ UNCHANGED <<parton_xsec_, muR_scale_factor_, target_branching,
                   add_sel_eff, xsec_nosmear_interp, idle>>

\* reco_mtt.target_branching = t / 27: a plain attribute.
SetTargetBranching(t) ==
    /\ target_branching' = t
    /\ xsec_nosmear_grid' = GridAfterPlainAssign(xsec_nosmear_grid)
    /\ evals' = 0
    /\ last' = "target_branching"
    /\ raised' = NoExc
    /\ UNCHANGED elsewhere
    /\ UNCHANGED <<parton_xsec_, muR_scale_factor_, resolution,
                   add_sel_eff, xsec_nosmear_interp, idle>>

\* reco_mtt.add_sel_eff = e / 10: a plain attribute.
SetAddSelEff(e) ==
    /\ add_sel_eff' = e
    /\ xsec_nosmear_grid' = GridAfterPlainAssign(xsec_nosmear_grid)
    /\ evals' = 0
    /\ last' = "add_sel_eff"
    /\ raised' = NoExc
    /\ UNCHANGED elsewhere
    /\ UNCHANGED <<parton_xsec_, muR_scale_factor_, resolution,
                   target_branching, xsec_nosmear_interp, idle>>

GridStoredPartial(grid, b) == StoredGrid(b)

\* self.xsec_nosmear_grid after build_xsec_grid has run with the locals b:
\* the assignment in its last lines is reached only when nothing was
\* raised before it.
GridAfterBuild(grid, b) == IF b.raised = NoExc THEN StoredGrid(b) ELSE grid

\* reco_mtt.build_xsec_grid(rel_tolerance = 1 / den), from call to return.
BuildXsecGrid(den) ==
    \E b \in {BuildResult(Self, den)} :
       /\ ~Running(b)
       /\ xsec_nosmear_grid' = GridAfterBuild(xsec_nosmear_grid, b)
       /\ xsec_nosmear_interp' =
              IF b.raised = NoExc THEN InterpAfterBuild(xsec_nosmear_interp)
              ELSE xsec_nosmear_interp
       /\ evals' = b.evals
       /\ raised' = Unwind(b.raised)
       /\ last' = "build_xsec_grid"
       /\ UNCHANGED elsewhere
       /\ UNCHANGED <<attrs, idle>>

\* reco_mtt.xsec(mtt, num_sigma), from call to return: the lazy build, the
\* integration window, the choice of the path and, in the interpolated
\* path, the construction of the interpolant.
XsecReturns(build, b, mtt, num_sigma) ==
    \E grid \in {IF build THEN StoredGrid(b) ELSE xsec_nosmear_grid} :
       LET interp == IF build THEN InterpAfterBuild(xsec_nosmear_interp)
                     ELSE xsec_nosmear_interp
           start == WindowStart(grid, mtt, num_sigma, resolution)
           end == WindowEnd(grid, mtt, num_sigma, resolution)
           direct == DirectPath(start, end, num_sigma)
       IN /\ build => ~Running(b)
          /\ IF build /\ b.raised # NoExc
             THEN /\ raised' = Unwind(b.raised)
                  /\ last' = "xsec_raised"
                  /\ xsec_nosmear_grid' = GridAfterBuild(xsec_nosmear_grid, b)
                  /\ UNCHANGED xsec_nosmear_interp
             ELSE /\ xsec_nosmear_grid' = grid
                  /\ xsec_nosmear_interp' =
                         IF direct THEN interp ELSE InterpUsed(interp, grid)
                  /\ last' = IF direct THEN "xsec_direct" ELSE "xsec_interp"
                  /\ raised' = NoExc
          /\ evals' = IF build THEN b.evals ELSE 0
          /\ UNCHANGED attrs

Xsec ==
    \E build \in {GridMissing(xsec_nosmear_grid)} :
    \E b \in {IF build THEN BuildResult(Self, DefaultRelTolDen) ELSE Locals} :
    \E mtt \in QueryMtts, num_sigma \in NumSigmas :
       /\ XsecReturns(build, b, mtt, num_sigma)
       /\ UNCHANGED elsewhere
       /\ UNCHANGED idle

Next ==
    \/ \E m \in SmoothModels : SetPartonXSec(m)
    \/ \E f \in CacheMuRValues : SetMuRScaleFactor(f)
    \/ \E r \in Resolutions : SetResolution(r)
    \/ \E t \in TargetBranchings : SetTargetBranching(t)
    \/ \E e \in AddSelEffs : SetAddSelEff(e)
    \/ \E den \in {DefaultRelTolDen} : BuildXsecGrid(den)
    \/ Xsec

Spec == Init /\ [][Next]_vars

(* ------------- queries and setters, the query being kept -------------- *)

\* reco_mtt.xsec(mtt, num_sigma), of which the caller keeps the arguments
\* next to the value.
XsecAt(mtt, num_sigma) ==
    \E build \in {GridMissing(xsec_nosmear_grid)} :
    \E b \in {IF build THEN BuildResult(Self, DefaultRelTolDen) ELSE Locals} :
       /\ XsecReturns(build, b, mtt, num_sigma)
       /\ query' = [mtt |-> mtt, num_sigma |-> num_sigma]
       /\ UNCHANGED elsewhere
       /\ UNCHANGED <<pc, rel_tolerance, mtt_values, xsec_values, tolerance,
                      i, stack>>

\* The calls of which test.py and StatCalc make sequences: the two
\* setters, the resolution, and xsec.
NextHistory ==
    \/ \E m \in SmoothModels : SetPartonXSec(m)
    \/ \E f \in CacheMuRValues : SetMuRScaleFactor(f)
    \/ \E r \in Resolutions : SetResolution(r)
    \/ \E mtt \in QueryMtts, num_sigma \in NumSigmas : XsecAt(mtt, num_sigma)

SpecHistory == Init /\ [][NextHistory]_vars

(* -------------- calls that raise, and the calls after ----------------- *)

\* Models whose cross section raises: at every mtt, at one mtt, and at one
\* mtt for one of the scale factors only.
RaisingModels == {"BadLabel", "Pole", "Fragile"}

\* RecoMtt(parton_xsec, resolution) with one of them.
InitRetry ==
    /\ parton_xsec_ \in RaisingModels
    /\ muR_scale_factor_ = 2
    /\ resolution \in Resolutions
    /\ target_branching = 8
    /\ add_sel_eff = 3
    /\ xsec_nosmear_grid = None
    /\ xsec_nosmear_interp = None
    /\ pc = "idle"
    /\ rel_tolerance = 0
    /\ mtt_values = <<>>
    /\ xsec_values = <<>>
    /\ tolerance = [num |-> 0, den |-> 1]
    /\ i = 0
    /\ evals = 0
    /\ last = "__init__"
    /\ raised = NoExc
    /\ stack = <<>>
    /\ query = NoQuery
    /\ ElsewhereAtRest

NextRetry ==
    \/ \E f \in MuRValues : SetMuRScaleFactor(f)
    \/ \E den \in {DefaultRelTolDen} : BuildXsecGrid(den)
    \/ \E mtt \in QueryMtts, num_sigma \in NumSigmas : XsecAt(mtt, num_sigma)

SpecRetry == InitRetry /\ [][NextRetry]_vars

(* ------------------- build_xsec_grid, step by step -------------------- *)

\* A RecoMtt as constructed with one of the models, its scale factor
\* assigned, and no call running.
InitBuild ==
    /\ parton_xsec_ \in Models
    /\ muR_scale_factor_ \in MuRValues
    /\ resolution = 20
    /\ target_branching = 8
    /\ add_sel_eff = 3
    /\ xsec_nosmear_grid = None
    /\ xsec_nosmear_interp = None
    /\ pc = "idle"
    /\ rel_tolerance = 0
    /\ mtt_values = <<>>
    /\ xsec_values = <<>>
    /\ tolerance = [num |-> 0, den |-> 1]
    /\ i = 0
    /\ evals = 0
    /\ last = "__init__"
    /\ raised = NoExc
    /\ stack = <<>>
    /\ query = NoQuery
    /\ ElsewhereAtRest

\* An exception that leaves the frames of a stack, innermost first.
RECURSIVE UnwindAll(_, _)
UnwindAll(frames, exc) ==
    IF frames = <<>> THEN exc ELSE UnwindAll(Tail(frames), Unwind(exc))

\* build_xsec_grid(rel_tolerance = 1 / den) is entered under the frames
\* given and runs up to the loop, or to the seed point where xsec_no_smear
\* raises.
BuildEnter(den, frames, q) ==
    /\ pc = "idle"
    /\ LET b == SeedGrid(Self, den)
       IN /\ mtt_values' = b.mtt_values
          /\ xsec_values' = b.xsec_values
          /\ tolerance' = b.tolerance
          /\ i' = b.i
          /\ evals' = b.evals
          /\ IF b.raised = NoExc
             THEN pc' = "loop" /\ stack' = frames /\ raised' = NoExc
             ELSE /\ pc' = "raised"
                  /\ stack' = <<>>
                  /\ raised' = UnwindAll(Tail(frames), b.raised)
    /\ rel_tolerance' = den
    /\ query' = q
    /\ UNCHANGED elsewhere
    /\ UNCHANGED <<attrs, xsec_nosmear_grid, xsec_nosmear_interp, last>>

\* reco_mtt.build_xsec_grid(rel_tolerance = 1 / den) is called.
BuildStart(den) == BuildEnter(den, <<"build_xsec_grid">>, NoQuery)

\* reco_mtt.xsec(mtt, num_sigma) is called with no grid cached and calls
\* build_xsec_grid().
XsecStart(mtt, num_sigma) ==
    /\ GridMissing(xsec_nosmear_grid)
    /\ BuildEnter(DefaultRelTolDen, <<"build_xsec_grid", "xsec">>,
                  [mtt |-> mtt, num_sigma |-> num_sigma])

\* One iteration of the while loop.
BuildLoop ==
    /\ pc = "loop"
    /\ LoopCond(Locals)
    /\ Len(mtt_values) < MaxLen
    /\ LET b == RefineStep(Self, Locals)
       IN /\ mtt_values' = b.mtt_values
          /\ xsec_values' = b.xsec_values
          /\ i' = b.i
          /\ evals' = b.evals
          /\ IF b.raised = NoExc
             THEN UNCHANGED <<pc, stack, raised>>
             ELSE /\ pc' = "raised"
                  /\ stack' = <<>>
                  /\ raised' = UnwindAll(Tail(stack), b.raised)
    /\ UNCHANGED elsewhere
    /\ UNCHANGED <<attrs, xsec_nosmear_grid, xsec_nosmear_interp,
                   rel_tolerance, tolerance, last, query>>

\* The loop has ended: the grid is stored, the interpolant cleared and
\* build_xsec_grid returns, to xsec when xsec called it.
BuildStore ==
    /\ pc = "loop"
    /\ ~LoopCond(Locals)
    /\ xsec_nosmear_grid' = [x |-> mtt_values, y |-> xsec_values]
    /\ xsec_nosmear_interp' = InterpAfterBuild(xsec_nosmear_interp)
    /\ stack' = Tail(stack)
    /\ pc' = IF Tail(stack) = <<>> THEN "done" ELSE "convolve"
    /\ last' = "build_xsec_grid"
    /\ UNCHANGED elsewhere
    /\ UNCHANGED <<attrs, locals, raised, query>>

\* xsec goes on after build_xsec_grid has returned: the window, the path
\* and the interpolant, and it returns.
XsecConvolve ==
    /\ pc = "convolve"
    /\ LET start == WindowStart(xsec_nosmear_grid, query.mtt,
                                query.num_sigma, resolution)
           end == WindowEnd(xsec_nosmear_grid, query.mtt, query.num_sigma,
                            resolution)
           direct == DirectPath(start, end, query.num_sigma)
       IN /\ xsec_nosmear_interp' =
                 IF direct THEN xsec_nosmear_interp
                 ELSE InterpUsed(xsec_nosmear_interp, xsec_nosmear_grid)
          /\ last' = IF direct THEN "xsec_direct" ELSE "xsec_interp"
    /\ pc' = "done"
    /\ stack' = <<>>
    /\ UNCHANGED elsewhere
    /\ UNCHANGED <<attrs, xsec_nosmear_grid, locals, raised, query>>

NextBuild ==
    \/ \E den \in RelTolDens : BuildStart(den)
    \/ \E mtt \in QueryMtts, num_sigma \in NumSigmas :
          XsecStart(mtt, num_sigma)
    \/ BuildLoop
    \/ BuildStore
    \/ XsecConvolve

SpecBuild == InitBuild /\ [][NextBuild]_vars

(* ---------- build_xsec_grid with its seed loop step by step ----------- *)

\* Lines 317-320: the seed grid is laid out, xsec_values is a list of as
\* many 0. and the for loop is about to start.
SeedStart(den) ==
    /\ pc = "idle"
    /\ mtt_values' = Linspace(num_points(Self))
    /\ xsec_values' = [k \in 1..num_points(Self) |-> 0]
    /\ i' = 0
    /\ evals' = 0
    /\ rel_tolerance' = den
    /\ stack' = <<"build_xsec_grid">>
    /\ pc' = "seed"
    /\ UNCHANGED elsewhere
    /\ UNCHANGED <<attrs, xsec_nosmear_grid, xsec_nosmear_interp, tolerance,
                   last, raised, query>>

\* One pass of the for loop: xsec_values[i] = self.xsec_no_smear(...).
SeedStep ==
    /\ pc = "seed"
    /\ i < Len(mtt_values)
    /\ LET v == xsec_no_smear(Self, mtt_values[i + 1])
       IN IF IsExc(v)
          THEN /\ pc' = "raised"
               /\ stack' = <<>>
               /\ raised' = UnwindAll(Tail(stack), Unwind(v))
               /\ UNCHANGED <<xsec_values, i>>
          ELSE /\ xsec_values' = [xsec_values EXCEPT ![i + 1] = v]
               /\ i' = i + 1
               /\ UNCHANGED <<pc, stack, raised>>
    /\ evals' = evals + 1
    /\ UNCHANGED elsewhere
    /\ UNCHANGED <<attrs, xsec_nosmear_grid, xsec_nosmear_interp,
                   rel_tolerance, mtt_values, tolerance, last, query>>

\* The for loop has ended: the tolerance is computed and i set to 0.
SeedEnd ==
    /\ pc = "seed"
    /\ i = Len(mtt_values)
    /\ tolerance' = Tolerance(xsec_values, rel_tolerance)
    /\ i' = 0
    /\ pc' = "loop"
    /\ UNCHANGED elsewhere
    /\ UNCHANGED <<attrs, xsec_nosmear_grid, xsec_nosmear_interp,
                   rel_tolerance, mtt_values, xsec_values, evals, last,
                   raised, stack, query>>

NextSeed ==
    \/ \E den \in RelTolDens : SeedStart(den)
    \/ SeedStep
    \/ SeedEnd
    \/ BuildLoop
    \/ BuildStore

SpecSeed == InitBuild /\ [][NextSeed]_vars

(* ------------------- xsec and what it sums over ----------------------- *)

\* Resolutions (in hundredths), numbers of sigmas and values of mtt that put
\* the window inside the range of the grid, across its ends, below its
\* lower end and at or beyond 0.
ConvResolutions == {1, 20, 50}
ConvNumSigmas == {1, 2, 3}
ConvMtts == {100, 200, 350, 400, 1000, 1900, 2000}

\* A RecoMtt of some resolution whose grid has been built.
InitConv ==
    /\ parton_xsec_ \in SmoothModels
    /\ muR_scale_factor_ = 2
    /\ resolution \in ConvResolutions
    /\ target_branching = 8
    /\ add_sel_eff = 3
    /\ \E b \in {BuildResult(Self, DefaultRelTolDen)} :
          /\ xsec_nosmear_grid = StoredGrid(b)
          /\ evals = b.evals
    /\ xsec_nosmear_interp = InterpAfterBuild(xsec_nosmear_grid)
    /\ pc = "idle"
    /\ rel_tolerance = 0
    /\ mtt_values = <<>>
    /\ xsec_values = <<>>
    /\ tolerance = [num |-> 0, den |-> 1]
    /\ i = 0
    /\ last = "build_xsec_grid"
    /\ raised = NoExc
    /\ stack = <<>>
    /\ query = NoQuery
    /\ ElsewhereAtRest

\* reco_mtt.xsec(mtt, num_sigma), with the locals of its sum.
XsecSums(mtt, num_sigma) ==
    \E build \in {GridMissing(xsec_nosmear_grid)} :
    \E b \in {IF build THEN BuildResult(Self, DefaultRelTolDen) ELSE Locals} :
       /\ XsecReturns(build, b, mtt, num_sigma)
       /\ query' = [mtt |-> mtt, num_sigma |-> num_sigma]
       /\ convolution' =
             IF build /\ b.raised # NoExc THEN NoConvolution
             ELSE Convolution(IF build THEN StoredGrid(b)
                              ELSE xsec_nosmear_grid,
                              IF build
                              THEN InterpAfterBuild(xsec_nosmear_interp)
                              ELSE xsec_nosmear_interp,
                              resolution, mtt, num_sigma)
       /\ UNCHANGED <<pc, rel_tolerance, mtt_values, xsec_values, tolerance,
                      i, stack>>
       /\ UNCHANGED exceptConv

NextConv ==
    \E mtt \in ConvMtts, num_sigma \in ConvNumSigmas :
       XsecSums(mtt, num_sigma)

SpecConv == InitConv /\ [][NextConv]_vars

(* ------ StatCalc._build_signal_templates and the RecoMtt it uses ------ *)

\* The scale factors of the three variations in the order of the loop, in
\* halves: 1., 2. and 0.5.
ScaleFactors == <<2, 4, 1>>

\* num_samples
NumSamples == 10

\* self.binning: NumBins bins of 90 GeV from 400 GeV on.
Binning == [k \in 1..(NumBins + 1) |-> 400 + 90 * (k - 1)]

\* x[isample] of np.linspace(binning[ibin], binning[ibin + 1], num=10), with
\* ibin and isample counted from 0.
SampleAt(ibin, isample) ==
    Binning[ibin + 1]
       + (isample * (Binning[ibin + 2] - Binning[ibin + 1]))
            \div (NumSamples - 1)

\* A RecoMtt that has been used before: some scale factor, and its grid
\* built for it or not.
InitTempl ==
    /\ parton_xsec_ \in SmoothModels
    /\ muR_scale_factor_ \in MuRValues
    /\ resolution = 20
    /\ target_branching = 8
    /\ add_sel_eff = 3
    /\ \/ /\ xsec_nosmear_grid = None
          /\ evals = 0
          /\ last = "__init__"
       \/ \E b \in {BuildResult(Self, DefaultRelTolDen)} :
             /\ xsec_nosmear_grid = StoredGrid(b)
             /\ evals = b.evals
             /\ last = "build_xsec_grid"
    /\ xsec_nosmear_interp = None
    /\ pc = "idle"
    /\ rel_tolerance = 0
    /\ mtt_values = <<>>
    /\ xsec_values = <<>>
    /\ tolerance = [num |-> 0, den |-> 1]
    /\ i = 0
    /\ raised = NoExc
    /\ stack = <<>>
    /\ query = NoQuery
    /\ ElsewhereAtRest

\* _build_signal_templates is called: the dictionary is emptied and the
\* loop over the variations starts.
TemplStart ==
    /\ templ.pc = "idle"
    /\ templ' = [pc |-> "assign", variation |-> 1, ibin |-> 0, isample |-> 0,
                 assigned |-> <<>>, builds |-> <<>>]
    /\ UNCHANGED <<recoVars, exceptTempl>>

\* self.signal_distr_calc.muR_scale_factor = muR_scale_factor
TemplAssign ==
    /\ templ.pc = "assign"
    /\ MuRScaleFactorSetter(ScaleFactors[templ.variation])
    /\ templ' = [templ EXCEPT !.pc = "sample", !.ibin = 0, !.isample = 0,
                              !.assigned = Append(@, muR_scale_factor_'),
                              !.builds = Append(@, 0)]
    /\ UNCHANGED idle
    /\ UNCHANGED exceptTempl

\* y[isample] = self.signal_distr_calc.xsec(x[isample]); after the last
\* sample of a bin comes the next bin, after the last bin the histograms.
TemplSample ==
    /\ templ.pc = "sample"
    /\ \E build \in {GridMissing(xsec_nosmear_grid)} :
       \E b \in {IF build THEN BuildResult(Self, DefaultRelTolDen)
                 ELSE Locals} :
          /\ XsecReturns(build, b, SampleAt(templ.ibin, templ.isample),
                         DefaultNumSigma)
          /\ query' = [mtt |-> SampleAt(templ.ibin, templ.isample),
                       num_sigma |-> DefaultNumSigma]
          /\ templ' =
               [templ EXCEPT
                  !.builds[templ.variation] = IF build THEN @ + 1 ELSE @,
                  !.isample = IF @ + 1 < NumSamples THEN @ + 1 ELSE 0,
                  !.ibin = IF templ.isample + 1 < NumSamples THEN @
                           ELSE @ + 1,
                  !.pc = IF /\ templ.isample + 1 = NumSamples
                            /\ templ.ibin + 1 = NumBins
                         THEN "fill" ELSE "sample"]
    /\ UNCHANGED <<pc, rel_tolerance, mtt_values, xsec_values, tolerance,
                   i, stack>>
    /\ UNCHANGED exceptTempl

\* The two histograms of the variation are filled and kept; the loop goes
\* to the next variation or ends.  Nothing of the RecoMtt is assigned.
TemplFill ==
    /\ templ.pc = "fill"
    /\ templ' = IF templ.variation < Len(ScaleFactors)
                THEN [templ EXCEPT !.pc = "assign", !.variation = @ + 1]
                ELSE [templ EXCEPT !.pc = "done"]
    /\ UNCHANGED <<recoVars, exceptTempl>>

NextTempl ==
    \/ TemplStart
    \/ TemplAssign
    \/ TemplSample
    \/ TemplFill

SpecTempl == InitTempl /\ [][NextTempl]_vars

(* ------------- xsec called from several threads at once -------------- *)

\* Threads that share one RecoMtt call xsec while nothing else is called on
\* it.  A step is what a thread does between two accesses of an attribute
\* of the shared object; the steps of different threads interleave freely.

\* The RecoMtt with its grid built, by build_xsec_grid or by an earlier
\* xsec, and with or without the interpolant of an earlier xsec.
InitReaders ==
    /\ parton_xsec_ \in SmoothModels
    /\ muR_scale_factor_ = 2
    /\ resolution \in Resolutions
    /\ target_branching = 8
    /\ add_sel_eff = 3
    /\ \E den \in RelTolDens :
       \E b \in {BuildResult(Self, den)} :
          /\ xsec_nosmear_grid = StoredGrid(b)
          /\ evals = b.evals
    /\ xsec_nosmear_interp \in {None, xsec_nosmear_grid}
    /\ pc = "idle"
    /\ rel_tolerance = 0
    /\ mtt_values = <<>>
    /\ xsec_values = <<>>
    /\ tolerance = [num |-> 0, den |-> 1]
    /\ i = 0
    /\ last = IF xsec_nosmear_interp = None THEN "build_xsec_grid"
              ELSE "xsec_interp"
    /\ raised = NoExc
    /\ stack = <<>>
    /\ query = NoQuery
    /\ PartonAtRest
    /\ ModelsAtRest
    /\ StatAtRest
    /\ GridAtRest
    /\ HistAtRest
    /\ ConvAtRest
    /\ TemplAtRest
    /\ readers = [built |-> xsec_nosmear_grid,
                  q |-> [t \in Threads |-> Outside]]

\* What the threads leave alone.
readersFrame == <<attrs, idle, last, raised, exceptReaders>>

At(t, where) == readers.q[t].pc = where
Move(t, q) == readers' = [readers EXCEPT !.q[t] = q]

\* xsec(mtt, num_sigma) is called.
QueryStart(t, mtt, num_sigma) ==
    /\ At(t, "outside")
    /\ Move(t, [Outside EXCEPT !.pc = "check_grid", !.mtt = mtt,
                               !.num_sigma = num_sigma])
    /\ UNCHANGED <<xsec_nosmear_grid, xsec_nosmear_interp, evals>>
    /\ UNCHANGED readersFrame

\* if self.xsec_nosmear_grid is None: self.build_xsec_grid()
QueryCheckGrid(t) ==
    /\ At(t, "check_grid")
    /\ \E build \in {GridMissing(xsec_nosmear_grid)} :
       \E b \in {IF build THEN BuildResult(Self, DefaultRelTolDen)
                 ELSE Locals} :
          /\ build => ~Running(b)
          /\ IF build /\ b.raised # NoExc
             THEN /\ Move(t, [readers.q[t] EXCEPT
                                 !.pc = "done",
                                 !.result.raised = "raised in xsec_no_smear"])
                  /\ UNCHANGED <<xsec_nosmear_grid, xsec_nosmear_interp>>
             ELSE /\ Move(t, [readers.q[t] EXCEPT !.pc = "window"])
                  /\ xsec_nosmear_grid' =
                         IF build THEN StoredGrid(b) ELSE xsec_nosmear_grid
                  /\ xsec_nosmear_interp' =
                         IF build THEN InterpAfterBuild(xsec_nosmear_interp)
                         ELSE xsec_nosmear_interp
          /\ evals' = IF build THEN b.evals ELSE evals
    /\ UNCHANGED readersFrame

\* start, end = np.searchsorted(self.xsec_nosmear_grid[0], ...) and the
\* choice of the sum.
QueryWindow(t) ==
    /\ At(t, "window")
    /\ IF xsec_nosmear_grid = None
       THEN Move(t, [readers.q[t] EXCEPT !.pc = "done",
                                        !.result.raised = "TypeError"])
       ELSE LET q == readers.q[t]
                start == WindowStart(xsec_nosmear_grid, q.mtt, q.num_sigma,
                                     resolution)
                end == WindowEnd(xsec_nosmear_grid, q.mtt, q.num_sigma,
                                 resolution)
            IN Move(t, [q EXCEPT
                          !.pc = IF DirectPath(start, end, q.num_sigma)
                                 THEN "direct" ELSE "check_interp",
                          !.start = start, !.end = end])
    /\ UNCHANGED <<xsec_nosmear_grid, xsec_nosmear_interp, evals>>
    /\ UNCHANGED readersFrame

\* The weights and simps over self.xsec_nosmear_grid[:, start:end].
QueryDirect(t) ==
    /\ At(t, "direct")
    /\ LET q == readers.q[t]
       IN Move(t, [q EXCEPT
                     !.pc = "done",
                     !.result = IF xsec_nosmear_grid = None
                                THEN [NoResult EXCEPT !.raised = "TypeError"]
                                ELSE [raised |-> "", path |-> "direct",
                                      start |-> q.start, end |-> q.end,
                                      data |-> xsec_nosmear_grid]])
    /\ UNCHANGED <<xsec_nosmear_grid, xsec_nosmear_interp, evals>>
    /\ UNCHANGED readersFrame

\* if self.xsec_nosmear_interp is None: interp1d(self.xsec_nosmear_grid[0],
\* self.xsec_nosmear_grid[1], copy=False, ...), not yet assigned.
QueryCheckInterp(t) ==
    /\ At(t, "check_interp")
    /\ IF xsec_nosmear_interp # None
       THEN Move(t, [readers.q[t] EXCEPT !.pc = "resample"])
       ELSE IF xsec_nosmear_grid = None
       THEN Move(t, [readers.q[t] EXCEPT !.pc = "done",
                                        !.result.raised = "TypeError"])
       ELSE Move(t, [readers.q[t] EXCEPT
                       !.pc = "store_interp",
                       !.interp = InterpUsed(xsec_nosmear_interp,
                                             xsec_nosmear_grid)])
    /\ UNCHANGED <<xsec_nosmear_grid, xsec_nosmear_interp, evals>>
    /\ UNCHANGED readersFrame

\* self.xsec_nosmear_interp = <the interp1d made>
QueryStoreInterp(t) ==
    /\ At(t, "store_interp")
    /\ xsec_nosmear_interp' = readers.q[t].interp
    /\ Move(t, [readers.q[t] EXCEPT !.pc = "resample"])
    /\ UNCHANGED <<xsec_nosmear_grid, evals>>
    /\ UNCHANGED readersFrame

\* y[i] = self.xsec_nosmear_interp(x[i]) * weight over the 101 points, and
\* simps(y, x).
QueryResample(t) ==
    /\ At(t, "resample")
    /\ LET q == readers.q[t]
       IN Move(t, [q EXCEPT
                     !.pc = "done",
                     !.result = IF xsec_nosmear_interp = None
                                THEN [NoResult EXCEPT !.raised = "TypeError"]
                                ELSE [raised |-> "", path |-> "interp",
                                      start |-> q.start, end |-> q.end,
                                      data |-> xsec_nosmear_interp]])
    /\ UNCHANGED <<xsec_nosmear_grid, xsec_nosmear_interp, evals>>
    /\ UNCHANGED readersFrame

\* The caller takes the value.
QueryReturn(t) ==
    /\ At(t, "done")
    /\ Move(t, Outside)
    /\ UNCHANGED <<xsec_nosmear_grid, xsec_nosmear_interp, evals>>
    /\ UNCHANGED readersFrame

NextReaders ==
    \E t \in Threads :
       \/ \E mtt \in QueryMtts, num_sigma \in NumSigmas :
             QueryStart(t, mtt, num_sigma)
       \/ QueryCheckGrid(t)
       \/ QueryWindow(t)
       \/ QueryDirect(t)
       \/ QueryCheckInterp(t)
       \/ QueryStoreInterp(t)
       \/ QueryResample(t)
       \/ QueryReturn(t)

SpecReaders == InitReaders /\ [][NextReaders]_vars

(* -------------------- specifications of other objects ----------------- *)

\* A RecoMtt as constructed, on which nothing is called.
RecoAtRest ==
    /\ parton_xsec_ = "Broad"
    /\ muR_scale_factor_ = 2
    /\ resolution = 20
    /\ target_branching = 8
    /\ add_sel_eff = 3
    /\ xsec_nosmear_grid = None
    /\ xsec_nosmear_interp = None
    /\ pc = "idle"
    /\ rel_tolerance = 0
    /\ mtt_values = <<>>
    /\ xsec_values = <<>>
    /\ tolerance = [num |-> 0, den |-> 1]
    /\ i = 0
    /\ evals = 0
    /\ last = "__init__"
    /\ raised = NoExc
    /\ stack = <<>>
    /\ query = NoQuery

\* Assignments and reads of var_scale on model objects.
InitVarScale ==
    /\ InitParton
    /\ RecoAtRest
    /\ ModelsAtRest
    /\ ReadersAtRest
    /\ StatAtRest
    /\ GridAtRest
    /\ HistAtRest
    /\ ConvAtRest
    /\ TemplAtRest

NextVarScale ==
    \/ \E o \in Objs, v \in 1..VarScaleMax : SetVarScale(o, v)
    \/ \E o \in Objs : ReadVarScale(o)

SpecVarScale == InitVarScale /\ [][NextVarScale]_vars

\* Calls of the cross sections of the concrete models, around the
\* threshold of the production of two top quarks.
InitModels == RecoAtRest /\ ElsewhereAtRest

NextModels ==
    \/ \E method \in ComponentMethods, sqrt_s \in SqrtSValues,
          alpha_s \in AlphaSValues : CallTwoHDM(method, sqrt_s, alpha_s)
    \/ \E method \in ComponentMethods, sqrt_s \in SqrtSValues,
          alpha_s \in AlphaSValues, d \in {-1, 0, 1} :
          CallHMSSM(method, sqrt_s * sqrt_s + d, alpha_s)
    \/ \E method \in {"xsec_res", "xsec_int"}, sqrt_s \in SqrtSValues,
          alpha_s \in AlphaSValues : CallVLQ(method, sqrt_s, alpha_s)

SpecModels == InitModels /\ [][NextModels]_vars

\* A StatCalc in a scan: the signal is replaced, and the two tests are made
\* in any order and any number of times.
InitStat == RecoAtRest /\ ElsewhereAtRest

NextStat ==
    \/ \E signal_distr \in Signals : UpdateSignal(signal_distr)
    \/ Significance
    \/ Cls

SpecStat == InitStat /\ [][NextStat]_vars

\* A Grid over which a scan iterates and to which it attaches values.  An
\* index one past the last is among those given to set.
InitGrid ==
    /\ RecoAtRest
    /\ PartonAtRest
    /\ ModelsAtRest
    /\ ReadersAtRest
    /\ StatAtRest
    /\ HistAtRest
    /\ ConvAtRest
    /\ TemplAtRest
    /\ \E nx \in 0..MaxX, ny \in 0..MaxY :
          GridInit(Coordinates(nx, 400, 50), Coordinates(ny, 1, 2))

SetIndices == 0..(PyLen(grid_x) * PyLen(grid_y))
SignificanceValues == {5}
ClsValues == {7}

NextGrid ==
    \/ IterStart
    \/ IterNext
    \/ \E global_index \in SetIndices, significance_ \in SignificanceValues,
          cls_ \in ClsValues : Set(global_index, significance_, cls_)

SpecGrid == InitGrid /\ [][NextGrid]_vars

\* The histograms of the variations, for every content of the bins.
InitHist == RecoAtRest /\ ElsewhereAtRest

NextHist ==
    \E postfix_ \in Postfixes, values \in [1..NumBins -> BinValues] :
       FillHistograms(postfix_, values)

SpecHist == InitHist /\ [][NextHist]_vars

(* ---------------------------- properties ------------------------------ *)

XsecLabels == {"xsec_direct", "xsec_interp"}
SetterLabels == {"parton_xsec", "muR_scale_factor"}
EfficiencyLabels == {"target_branching", "add_sel_eff"}

\* Every sample of the grid is xsec_no_smear, with the attributes self, at
\* its mtt.
SamplesOf(grid, self) ==
    /\ Len(grid.x) = Len(grid.y)
    /\ \A k \in 1..Len(grid.x) : grid.y[k] = xsec_no_smear(self, grid.x[k])

\* The grid samples the cross section of the model m at the scale factor f.
BuiltUnder(grid, m, f) ==
    \E t \in TargetBranchings, e \in AddSelEffs :
       SamplesOf(grid, [parton_xsec_ |-> m, muR_scale_factor_ |-> f,
                        target_branching |-> t, add_sel_eff |-> e])

\* One run of build_xsec_grid that ends with n points has evaluated
\* xsec_no_smear once per point and once per accepted segment.
EvalsOfOneBuild(n) == 2 * n - 1

\* C1: a query builds exactly when no grid is cached.  A step that is a
\* query ends with a grid cached; when none was cached before it, it ran
\* build_xsec_grid once, under the current attributes; when one was cached
\* it evaluated xsec_no_smear zero times and left the grid as it was.
C1_LazyBuild ==
    [][last' \in XsecLabels =>
         /\ xsec_nosmear_grid' # None
         /\ xsec_nosmear_grid = None =>
               /\ evals' = EvalsOfOneBuild(Len(xsec_nosmear_grid'.x))
               /\ SamplesOf(xsec_nosmear_grid', Self)
         /\ xsec_nosmear_grid # None =>
               /\ evals' = 0
               /\ xsec_nosmear_grid' = xsec_nosmear_grid]_vars

\* A query has gone straight to the convolution, of a grid that an earlier
\* query built.
C1_Witness ==
    /\ last \in XsecLabels
    /\ evals = 0
    /\ xsec_nosmear_grid # None

\* C2: the grid that a query has convolved samples the cross section of the
\* current model at the current scale factor.
C2_GridOfCurrentModelAndScale ==
    last \in XsecLabels =>
       /\ xsec_nosmear_grid # None
       /\ BuiltUnder(xsec_nosmear_grid, parton_xsec_, muR_scale_factor_)

\* A query has built the grid after the scale factor was changed from the
\* value of the construction, and the grid is not one of that value.
C2_Witness ==
    /\ last \in XsecLabels
    /\ muR_scale_factor_ = 4
    /\ evals > 0
    /\ ~BuiltUnder(xsec_nosmear_grid, parton_xsec_, 2)

\* C3: right after an assignment of the model or of the scale factor the
\* grid is absent and the assignment has evaluated xsec_no_smear zero
\* times, whatever was assigned and whatever was cached.
C3_SetterInvalidatesLazily ==
    last \in SetterLabels => xsec_nosmear_grid = None /\ evals = 0

\* The scale factor was assigned the value under which the cache had been
\* filled, for the current model.
C3_Witness ==
    /\ last = "muR_scale_factor"
    /\ muR_scale_factor_ = 2
    /\ xsec_nosmear_interp # None
    /\ BuiltUnder(xsec_nosmear_interp, parton_xsec_, 2)

\* C4, as claimed: a present interpolant implies a present grid.
C4_InterpImpliesGrid ==
    xsec_nosmear_interp # None => xsec_nosmear_grid # None

\* C4, amended: an assignment of the model or of the scale factor sets
\* only the grid absent and leaves the interpolant as it was; it is
\* build_xsec_grid that sets the interpolant absent.
C4_SetterKeepsInterp ==
    [][/\ last' \in SetterLabels =>
             /\ xsec_nosmear_grid' = None
             /\ xsec_nosmear_interp' = xsec_nosmear_interp
       /\ last' = "build_xsec_grid" => xsec_nosmear_interp' = None]_vars

\* After a setter the grid is absent and the interpolant is present.
C4_Witness ==
    /\ last \in SetterLabels
    /\ xsec_nosmear_grid = None
    /\ xsec_nosmear_interp # None

\* C5, as claimed: the query that follows a change of the resolution
\* evaluates xsec_no_smear.
C5_ResolutionForcesRebuild ==
    [][last = "resolution" /\ last' \in XsecLabels => evals' > 0]_vars

\* C5, amended: an assignment of the resolution leaves the grid and the
\* interpolant as they were, and a query that follows it with a grid
\* cached evaluates xsec_no_smear zero times and convolves that grid.
C5_ResolutionKeepsGrid ==
    [][/\ last' = "resolution" =>
             /\ xsec_nosmear_grid' = xsec_nosmear_grid
             /\ xsec_nosmear_interp' = xsec_nosmear_interp
       /\ last = "resolution" /\ last' \in XsecLabels
             /\ xsec_nosmear_grid # None =>
             /\ evals' = 0
             /\ xsec_nosmear_grid' = xsec_nosmear_grid]_vars

\* The resolution was assigned with a grid and an interpolant cached.
C5_Witness ==
    /\ last = "resolution"
    /\ xsec_nosmear_grid # None
    /\ xsec_nosmear_interp # None

\* C6, as claimed: the grid that a query has convolved samples the cross
\* section with the current efficiency parameters.
C6_GridOfCurrentEfficiency ==
    last \in XsecLabels => SamplesOf(xsec_nosmear_grid, Self)

\* C6, amended: an assignment of target_branching or add_sel_eff leaves
\* the grid as it was and evaluates nothing, so that a query which follows
\* it convolves the grid of the old efficiency; a grid samples the cross
\* section with the current efficiency parameters right after the call
\* that built it.
C6_EfficiencyKeepsGrid ==
    [][/\ last' \in EfficiencyLabels =>
             /\ xsec_nosmear_grid' = xsec_nosmear_grid
             /\ evals' = 0
       /\ last \in EfficiencyLabels /\ last' \in XsecLabels
             /\ xsec_nosmear_grid # None =>
             xsec_nosmear_grid' = xsec_nosmear_grid
       /\ evals' > 0 => SamplesOf(xsec_nosmear_grid', Self)]_vars

\* A query has convolved a grid of efficiency parameters that are not the
\* current ones.
C6_Witness ==
    /\ last \in XsecLabels
    /\ xsec_nosmear_grid # None
    /\ ~SamplesOf(xsec_nosmear_grid, Self)

\* C7: the interpolant that the interpolated path has evaluated is the one
\* of the grid cached at that moment.
C7_InterpOfCachedGrid ==
    last = "xsec_interp" =>
       /\ xsec_nosmear_grid # None
       /\ xsec_nosmear_interp = xsec_nosmear_grid

\* The interpolated path was taken by a query that built the grid, at a
\* scale factor assigned after construction.
C7_Witness ==
    /\ last = "xsec_interp"
    /\ muR_scale_factor_ = 4
    /\ evals > 0

(* ---------------- properties of build_xsec_grid (SpecBuild) ----------- *)

StrictlyIncreasing(xs) == \A k \in 1..(Len(xs) - 1) : xs[k] < xs[k + 1]

\* v <= tolerance, for a float v.
WithinTol(v, tol) == FLe(FMul(v, tol.den), tol.num)

\* The two bounds on an accepted segment: the change over it is at most
\* the tolerance, and the deviation at its centre at most half of it.
SegmentPasses(ya, yb, ym, tol) ==
    /\ WithinTol(FAbs(FSub(yb, ya)), tol)
    /\ WithinTol(FAbs(FSub(FMul(2, ym), FAdd(ya, yb))), tol)

\* C8: at every step of the refinement loop and in the stored grid, the
\* values of mtt are strictly increasing, the first is 340 GeV (offset 0)
\* and the last is 2000 GeV (offset XSpan).
C8_GridStrictlyIncreasing ==
    pc \in {"loop", "done"} =>
       /\ StrictlyIncreasing(mtt_values)
       /\ mtt_values[1] = 0
       /\ mtt_values[Len(mtt_values)] = XSpan
       /\ pc = "done" => xsec_nosmear_grid.x = mtt_values

\* C9: when build_xsec_grid has returned, every pair of adjacent samples
\* of the stored grid satisfies both bounds, with xsec_no_smear evaluated
\* at the centre of the pair.
C9_StoredSegmentsWithinTolerance ==
    pc = "done" =>
       \A k \in 1..(Len(xsec_nosmear_grid.x) - 1) :
          SegmentPasses(xsec_nosmear_grid.y[k], xsec_nosmear_grid.y[k + 1],
                        xsec_no_smear(Self, Mid(xsec_nosmear_grid.x[k],
                                                xsec_nosmear_grid.x[k + 1])),
                        tolerance)

\* C10: the refinement is guarded against subdividing one segment forever:
\* the loop never comes to an iteration that tests a failing segment whose
\* centre is one of its ends, after which the same test fails again on the
\* same two values of mtt, iteration after iteration.
C10_NoEndlessSubdivision ==
    pc = "loop" => ~Degenerate(Self, Locals)

\* C11: a build in which an evaluation of xsec_no_smear gave a non-finite
\* value does not store a grid: no stored grid holds a non-finite sample.
C11_NoNonFiniteSampleStored ==
    xsec_nosmear_grid # None =>
       \A k \in 1..Len(xsec_nosmear_grid.y) : ~IsNaN(xsec_nosmear_grid.y[k])

\* The test that the loop makes of the pair at the indices (k - 1, k), in
\* the indices of the code, came out as failed.
FailsTest(k) ==
    SegmentFails(xsec_values[k], xsec_values[k + 1],
                 xsec_no_smear(Self, Mid(mtt_values[k], mtt_values[k + 1])),
                 tolerance)

\* An iteration of the loop that has not raised.
ScanStep ==
    LET mean_mtt == Mid(mtt_values[i + 1], mtt_values[i + 2])
        n == Len(mtt_values)
    IN /\ \A k \in 1..(i + 1) :
             /\ mtt_values'[k] = mtt_values[k]
             /\ xsec_values'[k] = xsec_values[k]
       /\ IF FailsTest(i + 1)
          THEN /\ i' = i
               /\ Len(mtt_values') = n + 1
               /\ Len(xsec_values') = n + 1
               /\ mtt_values'[i + 2] = mean_mtt
               /\ xsec_values'[i + 2] = xsec_no_smear(Self, mean_mtt)
               /\ \A k \in (i + 2)..n :
                     /\ mtt_values'[k + 1] = mtt_values[k]
                     /\ xsec_values'[k + 1] = xsec_values[k]
          ELSE /\ i' = i + 1
               /\ UNCHANGED <<mtt_values, xsec_values>>

\* C22: an iteration whose test fails inserts the sample of the centre at
\* i + 1 and keeps i, one whose test passes adds one to i, and neither
\* touches what is left of i; every pair left of i passes the test; and
\* the loop is left, when it is, with i at the last index.
C22_ScanAdvancesOrInserts ==
    /\ [](pc = "loop" => \A k \in 1..i : ~FailsTest(k))
    /\ [][pc = "loop" /\ pc' = "loop" /\ locals' # locals => ScanStep]_vars
    /\ [][pc = "loop" /\ pc' \in {"done", "convolve"} =>
             i = Len(mtt_values) - 1]_vars

\* The loop is at a pair inside the grid, has passed pairs and has
\* inserted samples, one of them right before the pair.
C22_Witness ==
    /\ pc = "loop"
    /\ i > 3
    /\ i < Len(mtt_values) - 1
    /\ Len(mtt_values) > num_points(Self) + 3
    /\ mtt_values[i + 1] \notin
          {Linspace(num_points(Self))[k] : k \in 1..num_points(Self)}

\* The exception that the calls of a model raise, if they raise.
\* The integer nearest to a / b, the even one of two equally near.
NearestInt(a, b) ==
    CHOOSE n \in 0..a :
       LET d == IF n * b > a THEN n * b - a ELSE a - n * b
       IN 2 * d <= b /\ (2 * d = b => n % 2 = 0)

\* max(100, round((2000 - 340) / var_scale)) for the model of this RecoMtt.
SeedCount ==
    LET r == NearestInt(2000 - 340, var_scale(parton_xsec_))
    IN IF r > 100 THEN r ELSE 100

\* The k-th of SeedCount evenly spaced points from 340 to 2000, as an offset.
SeedPoint(k) == ((k - 1) * XSpan) \div (SeedCount - 1)

\* C24: when build_xsec_grid reaches its loop the grid holds exactly
\* max(100, round((2000 - 340) / var_scale)) points, evenly spaced from 340
\* to 2000 with both ends among them, and xsec_no_smear has been evaluated
\* once at each of them and nowhere else.
C24_SeedGrid ==
    [][pc = "idle" /\ pc' = "loop" =>
          /\ Len(mtt_values') = SeedCount
          /\ Len(xsec_values') = SeedCount
          /\ mtt_values'[1] = 0
          /\ mtt_values'[SeedCount] = XSpan
          /\ \A k \in 1..SeedCount :
                /\ mtt_values'[k] * (SeedCount - 1) = (k - 1) * XSpan
                /\ xsec_values'[k] = xsec_no_smear(Self, mtt_values'[k])
          /\ evals' = SeedCount
          /\ i' = 0]_vars

\* The loop is about to make its first test on a grid of more than the
\* minimal number of seed points.
C24_Witness ==
    /\ pc = "loop"
    /\ i = 0
    /\ evals = Len(mtt_values)
    /\ Len(mtt_values) > 100
    /\ Len(mtt_values) = SeedCount

\* The cross section at the seed points, in their order.
SeedSamples == [k \in 1..SeedCount |-> xsec_no_smear(Self, SeedPoint(k))]

\* C25: in every test of the loop the tolerance is rel_tolerance times
\* (max - min) of the samples at the seed points, with rel_tolerance 0.005
\* when build_xsec_grid is called without it; no iteration of the loop
\* changes it, also not one that finds a value outside the range of the
\* seed samples.
C25_ToleranceFromSeeds ==
    /\ [][pc = "idle" /\ pc' = "loop" =>
             /\ tolerance'.den = rel_tolerance'
             /\ tolerance'.num = FSub(PyMax(SeedSamples), PyMin(SeedSamples))
             /\ (Len(stack') = 2 => rel_tolerance' = 200)]_vars
    /\ [][pc = "loop" =>
             tolerance' = tolerance /\ rel_tolerance' = rel_tolerance]_vars

\* The loop has inserted, between two of 100 seed points, a sample that
\* lies below every seed sample, and goes on testing.
C25_Witness ==
    /\ pc = "loop"
    /\ i < Len(mtt_values) - 1
    /\ Len(mtt_values) > 100
    /\ \E k \in 1..Len(xsec_values) :
          /\ FGt(0, xsec_values[k])
          /\ (mtt_values[k] * 99) % XSpan # 0
          /\ \A j \in 1..Len(xsec_values) :
                (mtt_values[j] * 99) % XSpan = 0
                   => FGt(xsec_values[j], xsec_values[k])

\* Every stored y is the cross section at its x.
SamplesMatch ==
    \A k \in 1..Len(mtt_values) :
       xsec_values[k] = xsec_no_smear(Self, mtt_values[k])

\* Every seed point is in the grid.
SeedsKept ==
    \A k \in 1..SeedCount : \E j \in 1..Len(mtt_values) :
       mtt_values[j] = SeedPoint(k)

\* m is the centre of a and b, to the rounding of the sum.
Midpoint(m, a, b) == 2 * m - (a + b) \in {-1, 0, 1}

\* The lists after the step are the lists before it with one sample put
\* between the p-th and the next: the centre of the two and the cross
\* section there.  Nothing else has moved.
InsertedAt(p) ==
    /\ Len(mtt_values') = Len(mtt_values) + 1
    /\ Len(xsec_values') = Len(xsec_values) + 1
    /\ \A k \in 1..p :
          mtt_values'[k] = mtt_values[k] /\ xsec_values'[k] = xsec_values[k]
    /\ \A k \in (p + 1)..Len(mtt_values) :
          /\ mtt_values'[k + 1] = mtt_values[k]
          /\ xsec_values'[k + 1] = xsec_values[k]
    /\ Midpoint(mtt_values'[p + 1], mtt_values[p], mtt_values[p + 1])
    /\ xsec_values'[p + 1] = xsec_no_smear(Self, mtt_values'[p + 1])

\* C28 as stated: at every step of build_xsec_grid, from the seed loop on,
\* the lists are equally long, every stored y is the cross section at its
\* x, every seed point is in the grid and a step of the loop that adds a
\* point adds the centre of two adjacent samples and moves nothing else.
C28_GridSampledAtEveryStep ==
    /\ [](pc \in {"seed", "loop", "done"} =>
            /\ Len(mtt_values) = Len(xsec_values)
            /\ (pc \in {"seed", "done"} => SamplesMatch /\ SeedsKept))
    /\ [][pc = "loop" =>
             \/ UNCHANGED <<mtt_values, xsec_values>>
             \/ \E p \in 1..(Len(mtt_values) - 1) : InsertedAt(p)]_vars

\* C28 for the steps after the seed loop: when the loop is entered the
\* lists hold the seed points and the cross section at each; every step of
\* the loop leaves the lists alone or adds the centre of two adjacent
\* samples, with the cross section there, and moves nothing else; so the
\* lists stay equally long, every stored y is the cross section at its x
\* and every seed point is in the grid, as it is when the grid is stored.
C28_GridSampledDuringRefinement ==
    /\ [](pc \in {"seed", "loop", "done"} =>
            /\ Len(mtt_values) = Len(xsec_values)
            /\ (pc = "done" => SamplesMatch /\ SeedsKept))
    /\ [][pc = "seed" /\ pc' = "loop" =>
             /\ SamplesMatch'
             /\ Len(mtt_values') = SeedCount
             /\ \A k \in 1..SeedCount : mtt_values'[k] = SeedPoint(k)]_vars
    /\ [][pc = "loop" =>
             \/ UNCHANGED <<mtt_values, xsec_values>>
             \/ \E p \in 1..(Len(mtt_values) - 1) : InsertedAt(p)]_vars

\* The grid is stored with points that the loop has added.
C28_Witness ==
    /\ pc = "done"
    /\ Len(mtt_values) > SeedCount + 3
    /\ Len(xsec_nosmear_grid.x) = Len(mtt_values)

Raises(m) ==
    IF m = "BadLabel" THEN RuntimeError
    ELSE IF m = "Pole" THEN ZeroDivisionError
    ELSE NoExc

\* C14: a call of build_xsec_grid or xsec in which xsec_no_smear raises
\* ends by passing to its caller the exception that the model raised, with
\* no grid stored and no path of the convolution taken; no such call
\* returns.
C14_ErrorsPropagate ==
    /\ pc = "raised" =>
          /\ raised # NoExc
          /\ raised = Raises(parton_xsec_)
          /\ xsec_nosmear_grid = None
          /\ last \notin XsecLabels
    /\ pc \in {"convolve", "done"} =>
          /\ raised = NoExc
          /\ Raises(parton_xsec_) = NoExc

\* A query has passed on the exception raised at the centre of a segment.
C14_Witness ==
    /\ pc = "raised"
    /\ query # NoQuery
    /\ raised = ZeroDivisionError
    /\ evals > Len(mtt_values)

(* ------------------- properties of the other objects ------------------ *)

\* C13: a read of var_scale on an object to which no value was assigned
\* raises an error and returns nothing; on an object to which a value was
\* assigned it raises nothing and returns the value assigned last to that
\* object.
C13_VarScaleReadsLastSet ==
    read # Unread =>
       IF assigned[read.obj] = 0
       THEN read.raised \in {"NotImplementedError", "AttributeError"}
       ELSE read.raised = "" /\ read.value = assigned[read.obj]

\* A read has raised on an object left as PartonXSec.__init__ made it,
\* while the other object holds an assigned value.
C13_Witness ==
    /\ read.obj = "o1"
    /\ read.raised = "NotImplementedError"
    /\ assigned["o2"] = 3

\* C16: every cross section of XSecTwoHDM, hmssm.PartonXSec and XSecVLQ
\* called with s < 4 mt^2 has returned exactly 0, for every alpha_s.
C16_ZeroBelowThreshold ==
    call # NoCall /\ call.s < 4 * Mt * Mt => call.result = 0

\* hmssm.PartonXSec was called one GeV^2 below the threshold, and the same
\* method is not zero one GeV^2 above it.
C16_Witness ==
    /\ call.class = "hmssm.PartonXSec"
    /\ call.s = 4 * Mt * Mt - 1
    /\ call.alpha_s = 3
    /\ call.result = 0
    /\ HMSSMXsec(call.method, 4 * Mt * Mt + 1, 3) # 0

\* What the xsec made last has summed: the kind of sum, the window, and
\* the samples it read.
Returned ==
    [path |-> last,
     start |-> WindowStart(xsec_nosmear_grid, query.mtt, query.num_sigma,
                           resolution),
     end |-> WindowEnd(xsec_nosmear_grid, query.mtt, query.num_sigma,
                       resolution),
     data |-> IF last = "xsec_direct" THEN xsec_nosmear_grid
              ELSE xsec_nosmear_interp]

\* What xsec(mtt, num_sigma) sums as the first call on a RecoMtt with the
\* attributes self and the resolution res.
FirstCall(self, res, mtt, num_sigma) ==
    LET grid == StoredGrid(BuildResult(self, DefaultRelTolDen))
        start == WindowStart(grid, mtt, num_sigma, res)
        end == WindowEnd(grid, mtt, num_sigma, res)
    IN [path |-> IF DirectPath(start, end, num_sigma) THEN "xsec_direct"
                 ELSE "xsec_interp",
        start |-> start, end |-> end, data |-> grid]

\* C18: after any sequence of queries, setter calls and assignments of the
\* resolution, xsec sums what it sums as the first call on a RecoMtt of the
\* same model, scale factor and resolution at the same point.
C18_ValueIndependentOfHistory ==
    last \in XsecLabels =>
       \E first \in {FirstCall(Self, resolution, query.mtt,
                                query.num_sigma)} :
          Returned = first

\* A query on the interpolant that had to build the grid, at a scale factor
\* other than the one of the construction: a setter was called before it.
C18_Witness ==
    /\ last = "xsec_interp"
    /\ muR_scale_factor_ = 4
    /\ parton_xsec_ = "Sharp"
    /\ query.mtt = 1000
    /\ evals > 0

(* ----------------- properties of the sums of xsec --------------------- *)

\* The number of points of the grid with
\* mtt - half_width <= g <= mtt + half_width, where
\* half_width = num_sigma * resolution * mtt.
WindowCount(grid, mtt, num_sigma, res) ==
    Cardinality({k \in 1..Len(grid.x) :
                    /\ ~MttBelow(grid.x[k], 100 * mtt - num_sigma * res * mtt)
                    /\ MttAtMost(grid.x[k],
                                 100 * mtt + num_sigma * res * mtt)})

\* C23: xsec has taken the direct sum exactly when windowCount / num_sigma
\* > 20, and summed over the points of the window then; otherwise it has
\* summed over 101 points, evenly spaced from mtt - half_width to
\* mtt + half_width.
C23_PathByWindowCount ==
    convolution # NoConvolution =>
       LET n == WindowCount(xsec_nosmear_grid, query.mtt, query.num_sigma,
                            resolution)
           x == convolution.x
           half_width == query.num_sigma * resolution * query.mtt
       IN /\ convolution.path = "direct" <=> n > 20 * query.num_sigma
          /\ convolution.path = "direct" => Len(x) = n
          /\ convolution.path # "direct" =>
                /\ convolution.path = "interpolated"
                /\ Len(x) = 101
                /\ x[1] = 100 * query.mtt - half_width
                /\ x[101] = 100 * query.mtt + half_width
                /\ \A j \in 1..100 : x[j + 1] - x[j] = x[2] - x[1]

\* A direct sum and an interpolated one have been made on grids of the same
\* resolution: the count of the window decided.
C23_Witness ==
    /\ convolution.path = "direct"
    /\ resolution = 20
    /\ query.mtt = 1000
    /\ query.num_sigma = 3
    /\ xsec_nosmear_interp # None

\* C26: in an interpolated sum every point outside [340, 2000] has the
\* summand zero: the interpolant gives 0 there without raising, and that part
\* of the window adds nothing to the integral.
C26_OutsideContributesNothing ==
    convolution.path = "interpolated" =>
       \A j \in 1..Len(convolution.x) :
          (convolution.x[j] < 100 * MttLo \/ convolution.x[j] > 100 * MttHi)
             => convolution.y[j] = "zero"

\* C30: every width of the kernel that xsec has divided by is strictly
\* positive, on the direct path and at each of the 101 points of the
\* interpolated one.
C30_KernelWidthPositive ==
    \A j \in 1..Len(convolution.sigma) : convolution.sigma[j] > 0

(* ------------------ properties of calls that raise -------------------- *)

\* C27: a call of build_xsec_grid or of xsec in which xsec_no_smear raises
\* leaves the grid and the interpolant as they were before the call: after
\* a setter has cleared the grid it stays absent and nothing half built is
\* stored; and a query that finds the grid absent runs the build, so the
\* query after a build that raised tries it again.
C27_RaisedBuildLeavesCache ==
    /\ [][raised' # NoExc =>
             /\ xsec_nosmear_grid' = xsec_nosmear_grid
             /\ xsec_nosmear_interp' = xsec_nosmear_interp]_vars
    /\ [][(GridMissing(xsec_nosmear_grid)
             /\ last' \in XsecLabels \cup {"xsec_raised"}) => evals' > 0]_vars

\* A query has raised in the refinement of a grid that a setter had
\* cleared; the interpolant of the grid before is still there and the
\* grid is absent.
C27_Witness ==
    /\ raised # NoExc
    /\ last = "xsec_raised"
    /\ evals > 100
    /\ GridMissing(xsec_nosmear_grid)
    /\ xsec_nosmear_interp # None

(* -------------- properties of _build_signal_templates ----------------- *)

\* C29: _build_signal_templates assigns the scale factors 1, 2 and 0.5 in
\* this order and no other; under each the grid is built exactly once,
\* three times in all; when it ends the RecoMtt has the scale factor 0.5,
\* whatever it had before, and the grid that a build under 0.5 gives.
C29_ThreeBuildsAndScaleLeft ==
    /\ templ.pc # "idle" =>
          /\ \A v \in 1..Len(templ.assigned) :
                templ.assigned[v] = <<2, 4, 1>>[v]
          /\ \A v \in 1..Len(templ.builds) : templ.builds[v] <= 1
    /\ templ.pc \in {"fill", "done"} =>
          templ.builds[templ.variation] = 1
    /\ templ.pc = "done" =>
          /\ templ.assigned = <<2, 4, 1>>
          /\ templ.builds = <<1, 1, 1>>
          /\ muR_scale_factor_ = 1
          /\ xsec_nosmear_grid # None
          /\ xsec_nosmear_grid =
                StoredGrid(BuildResult([Self EXCEPT !.muR_scale_factor_ = 1],
                                       200))

\* The construction of the templates has ended: one build under each of
\* the three factors, and the factor 0.5 left on the RecoMtt.
C29_Witness ==
    /\ templ.pc = "done"
    /\ templ.builds = <<1, 1, 1>>
    /\ muR_scale_factor_ = 1

(* --------------------- properties of concurrent xsec ------------------ *)

\* What xsec(mtt, num_sigma) returns when it is the only call running on
\* the RecoMtt that the threads share.
Alone(mtt, num_sigma) ==
    LET start == WindowStart(readers.built, mtt, num_sigma, resolution)
        end == WindowEnd(readers.built, mtt, num_sigma, resolution)
    IN [raised |-> "",
        path |-> IF DirectPath(start, end, num_sigma) THEN "direct"
                 ELSE "interp",
        start |-> start, end |-> end, data |-> readers.built]

\* C17: with the grid built and nothing but xsec running, a call that has
\* finished in any interleaving has the result it has alone, the grid is
\* never absent and the interpolant, if there is one, is over that grid.
C17_ConcurrentQueriesAgree ==
    /\ xsec_nosmear_grid = readers.built
    /\ xsec_nosmear_grid # None
    /\ xsec_nosmear_interp \in {None, xsec_nosmear_grid}
    /\ \A t \in Threads :
          At(t, "done") =>
             readers.q[t].result
                = Alone(readers.q[t].mtt, readers.q[t].num_sigma)

\* Two threads found no interpolant and each made one: the second has
\* finished on the interpolant that the first is about to overwrite.
C17_Witness ==
    /\ At(1, "store_interp")
    /\ At(2, "done")
    /\ readers.q[2].result.path = "interp"
    /\ readers.q[2].mtt # readers.q[1].mtt
    /\ xsec_nosmear_interp # None

\* C19: update_signal leaves neither templates nor workspace; a test that
\* returns after it has used a workspace and templates of the new signal;
\* and between two update_signal the templates and the workspace are each
\* completed at most once, whichever tests are made.
C19_SignalCachesFollowUpdate ==
    /\ ~Falsy(_signal_templates) => _signal_templates.of = signal_distr_calc
    /\ ~Falsy(_workspace) =>
          /\ _workspace.of = signal_distr_calc
          /\ _signal_templates.entries
                = TemplatesPerFactor * NumScaleFactors
    /\ built.templates <= 1
    /\ built.workspace <= 1
    /\ answers.last = "" /\ built.templates + built.workspace = 0 =>
          _signal_templates = Absent /\ _workspace = Absent
    /\ answers.last # "" /\ answers[answers.last].raised = "" =>
          /\ answers[answers.last].of = signal_distr_calc
          /\ ~Falsy(_workspace)
          /\ built.templates = 1
          /\ built.workspace = 1

\* cls() has returned last, on the workspace of the signal assigned last,
\* of which significance() has given its value too, the templates and the
\* workspace having been completed once since the assignment.
C19_Witness ==
    /\ signal_distr_calc = [id |-> 2, fails |-> 0]
    /\ answers.last = "cls"
    /\ answers.cls = [raised |-> "", of |-> signal_distr_calc]
    /\ answers.significance = answers.cls
    /\ built = [templates |-> 1, workspace |-> 1]

(* ------------------------- properties of Grid ------------------------- *)

\* All that one iteration from the generator state it yields.
RECURSIVE IterAll(_, _, _)
IterAll(it, xs, ys) ==
    IF it = NoIter THEN <<>>
    ELSE <<Yield(it, xs, ys)>> \o IterAll(Advance(it, xs, ys), xs, ys)

\* All that an iteration over the grid yields.
FullIteration ==
    IF PyLen(grid_x) = 0 \/ PyLen(grid_y) = 0 THEN <<>>
    ELSE IterAll([ix |-> 0, iy |-> 0], grid_x, grid_y)

\* The yields so far count from 0 with no gap and name distinct nodes with
\* their coordinates; they are all the nodes once the generator has ended.
YieldsInOrder ==
    /\ \A k \in 1..Len(yielded) :
          /\ yielded[k].global_index = k - 1
          /\ yielded[k].node \in Nodes(grid_x, grid_y)
          /\ yielded[k].x = grid_x[yielded[k].node[1]]
          /\ yielded[k].y = grid_y[yielded[k].node[2]]
    /\ \A j, k \in 1..Len(yielded) :
          j # k => yielded[j].node # yielded[k].node
    /\ Len(yielded) <= PyLen(grid_x) * PyLen(grid_y)
    /\ iter = NoIter /\ yielded # <<>> =>
          {yielded[k].node : k \in 1..Len(yielded)} = Nodes(grid_x, grid_y)
    /\ iter # NoIter => Len(yielded) < PyLen(grid_x) * PyLen(grid_y)

\* A set that returns has written its values to the node that the
\* iteration yields with its index, and to no other; one that raises has
\* an index that no yield has, and has written nothing.
SetWritesYieldedNode ==
    <<significance, cls, last_set>>' # <<significance, cls, last_set>> =>
       LET full == FullIteration
           at == {k \in 1..Len(full) :
                     full[k].global_index = last_set'.global_index}
       IN IF last_set'.raised # ""
          THEN at = {} /\ UNCHANGED <<significance, cls>>
          ELSE \E k \in at :
                  /\ significance' = [significance EXCEPT
                                         ![full[k].node] =
                                             last_set'.significance]
                  /\ cls' = [cls EXCEPT ![full[k].node] = last_set'.cls]

\* C20: __iter__ yields every node once, with the indices 0, 1, ... in
\* increasing order, and set(global_index, ...) writes significance and cls
\* of exactly the node yielded with that index.
C20_IterAndSetAgree == []YieldsInOrder /\ [][SetWritesYieldedNode]_vars

\* On a grid of two by two the iteration has ended, the second yield was
\* the node [1, 0], and set(1, ...) has written that node and not [0, 1].
C20_Witness ==
    /\ PyLen(grid_x) = 2
    /\ PyLen(grid_y) = 2
    /\ iter = NoIter
    /\ Len(yielded) = 4
    /\ yielded[2].node = <<1, 0>>
    /\ last_set.global_index = 1
    /\ significance[<<1, 0>>] = 5
    /\ cls[<<1, 0>>] = 7
    /\ significance[<<0, 1>>] = 0

(* ---------------- properties of the signal histograms ---------------- *)

\* C21: in every bin, of value v, SgnPos holds v and SgnNeg 0 when v >= 0,
\* SgnNeg holds -v and SgnPos 0 when v < 0; both are non-negative and
\* SgnPos - SgnNeg is v.
C21_HistogramsSplitBySign ==
    \A k \in 1..Len(xsec_integral) :
       LET v == xsec_integral[k]
       IN /\ \/ hist_pos[k] = v /\ hist_neg[k] = 0 /\ FGe0(v)
             \/ hist_neg[k] = FMul(-1, v) /\ hist_pos[k] = 0 /\ FGt(0, v)
          /\ FGe0(hist_pos[k])
          /\ FGe0(hist_neg[k])
          /\ FSub(hist_pos[k], hist_neg[k]) = v

=============================================================================
